---- MODULE Spec2Model ----
(***************************************************************************)
(* Model of the page-reconstruction algorithms of                          *)
(* src/services/pdfService.ts: calculateLineSpacingStats, the Line Grouper *)
(* of extractPdfStructure, reorderItemsByReadingFlow (findSplit and        *)
(* recursiveOrder) and mergeTextBlocks; of the page loop of                *)
(* extractPdfStructure, the auto-fit of renderStructureToElement, the font *)
(* handling of generatePdfFromStructure, extractDocxStructure and          *)
(* loadFontSet under two exports at once; and of translatePdfStructure and *)
(* callGeminiWithRetry of src/types.ts.                                    *)
(*                                                                         *)
(* Each function is run as a small state machine of its own                *)
(* (SpecOrder, SpecMerge, SpecStats, SpecGroup, SpecFit, SpecDoc,          *)
(* SpecXlat, SpecExport, SpecDocx, SpecRetry, SpecLoad); the variables of  *)
(* the functions that are not running keep their idle values.              *)
(*                                                                         *)
(* Numbers: coordinates are integers.  Where the code halves or multiplies *)
(* by 1.5 / 2.5 the model compares the cross-multiplied integers, so no    *)
(* rounding is introduced; every such place says so.                       *)
(***************************************************************************)
EXTENDS Integers, Sequences, FiniteSets, TLC

VARIABLES
    pc,         \* which function runs and where it stands
    items,      \* the argument `items` of reorderItemsByReadingFlow / mergeTextBlocks
    work,       \* recursiveOrder: the pending calls, innermost-left first
    out,        \* recursiveOrder: the concatenated results so far
    calls,      \* recursiveOrder: one record per call made (list, kind, partitions)
    i,          \* mergeTextBlocks: the loop index (next = items[i], counted from 1)
    current,    \* mergeTextBlocks: the item being grown
    merged,     \* mergeTextBlocks: the output array
    steps,      \* mergeTextBlocks: one record per loop iteration: current and
                \* next as it found them, what it did, current as it left it
    yCoords,    \* calculateLineSpacingStats: its argument (half units)
    gaps,       \* calculateLineSpacingStats: the surviving gaps (half units)
    frequency,  \* calculateLineSpacingStats: rounded gap -> count
    mode,       \* calculateLineSpacingStats: the most frequent rounded gap
    stats,      \* calculateLineSpacingStats: the returned record
    runs,       \* extractPdfStructure: textContent.items of the page
    viewport,   \* extractPdfStructure: the page's viewport (width, height)
    lineMap,    \* Line Grouper: rounded y -> the runs of that line
    sortedY,    \* Line Grouper: the line keys, top of the page first (half units)
    lineStats,  \* Line Grouper: { stdLineHeight, paraGapThreshold } of the page
    previousY,  \* Line Grouper: line of the last item created (half units)
    previousX,  \* Line Grouper: x of the last item created
    pageItems,  \* Line Grouper: the items created so far
    currentGroup, \* Line Grouper: index in pageItems of the item being grown, 0 for null
    li,         \* Line Grouper: index of the line in sortedY
    ri,         \* Line Grouper: index of the run in its sorted line
    fitItems,   \* renderStructureToElement: page.items of the page rendered
    fitIdx,     \* renderStructureToElement: index of the item in turn
    userLineSpacing, \* renderStructureToElement: its argument, in tenths
    scale,      \* renderStructureToElement: its argument
    spans,      \* renderStructureToElement: one record per element appended
    docs,       \* extractPdfStructure: the documents of two calls (pages of pdf.js)
    call,       \* extractPdfStructure: which of the two calls runs
    pageNum,    \* extractPdfStructure: the loop variable i of the page loop
    pages,      \* extractPdfStructure: the array `pages` of the call
    returned,   \* extractPdfStructure: what the calls made so far returned
    heap,       \* the item objects: address -> object
    inputHeap,  \* translatePdfStructure: the item objects as they were at the call
    structure,  \* translatePdfStructure: its argument (items are addresses)
    newPages,   \* translatePdfStructure: the array newPages
    pIdx,       \* translatePdfStructure: the page index, counted from 1
    tItems,     \* translatePdfStructure: pageItems, the addresses of the copies
    textIndices, \* translatePdfStructure: positions in pageItems of the texts sent
    bi,         \* translatePdfStructure: the batch loop variable i (from 0)
    ti,         \* translatePdfStructure: the table loop variable i (from 1)
    result,     \* translatePdfStructure: the structure returned
    outcomes,   \* translatePdfStructure: the kinds of answer met so far
    targetLanguage, \* generatePdfFromStructure: its argument
    nPages,     \* generatePdfFromStructure: structure.pages.length
    headStyles, \* document.head: the ids of the font style elements in it
    embedFontData, \* generatePdfFromStructure: the font name of the TTF, or NoFont
    activeFontName, \* generatePdfFromStructure: the font of the text layer
    pdfFont,    \* jsPDF: the font last set with pdf.setFont
    rendered,   \* generatePdfFromStructure: renderStructureToElement has run
    textLayer,  \* jsPDF: the font each page's text layer was written in
    failures,   \* the fetches that have failed so far
    docxBody,   \* extractDocxStructure: the child nodes of doc.body
    docxWork,   \* extractDocxStructure: the nodes processNode has yet to visit
    docxPages,  \* extractDocxStructure: the array `pages`
    currentPageItems, \* extractDocxStructure: the items of the page in the making
    currentY,   \* extractDocxStructure: where the next item goes (hundredths)
    retryI,     \* callGeminiWithRetry: the loop variable i
    attempts,   \* callGeminiWithRetry: the outcome of each call of fn so far
    delays,     \* callGeminiWithRetry: for each attempt, the delay awaited after it
    retryThrown, \* callGeminiWithRetry: the error it threw, or NothingThrown
    retryReturned, \* callGeminiWithRetry: the value it returned, if it has
    progress,   \* translatePdfStructure: the values passed to onProgress so far
    loadPc,     \* loadFontSet: where each of the two exports stands in its call
    loadId,     \* loadFontSet: the argument id of each export's call
    styleElements \* document.head: the ids of the style elements appended, in order

orderVars == <<work, out, calls>>

mergeVars == <<i, current, merged, steps>>

statsVars == <<yCoords, gaps, frequency, mode, stats>>

groupVars == <<runs, viewport, lineMap, sortedY, lineStats, previousY, previousX,
               pageItems, currentGroup, li, ri>>

fitVars == <<fitItems, fitIdx, userLineSpacing, scale, spans>>

\* The variables of the functions modelled after the page reconstruction
docVars == <<docs, call, pageNum, pages, returned>>

xlatVars == <<heap, inputHeap, structure, newPages, pIdx, tItems, textIndices, bi, ti,
              result, outcomes>>

exportVars == <<targetLanguage, nPages, headStyles, embedFontData, activeFontName,
                pdfFont, rendered, textLayer, failures>>

\* The variables of extractDocxStructure
docxVars == <<docxBody, docxWork, docxPages, currentPageItems, currentY>>

\* The variables of callGeminiWithRetry
retryVars == <<retryI, attempts, delays, retryThrown, retryReturned>>

\* The variables of two exports running loadFontSet at the same time
loadVars == <<loadPc, loadId, styleElements>>

\* The later functions that report no progress
otherVars == <<docxVars, retryVars, loadVars>>

extraVars == <<otherVars, progress>>

laterVars == <<fitVars, docVars, xlatVars, exportVars, extraVars>>

vars == <<pc, items, work, out, calls, i, current, merged, steps,
          yCoords, gaps, frequency, mode, stats,
          runs, viewport, lineMap, sortedY, lineStats, previousY, previousX,
          pageItems, currentGroup, li, ri, laterVars>>

\* The values the variables of a function keep while it is not running.
NoItem == [type |-> "none"]

IdleOrder == work = <<>> /\ out = <<>> /\ calls = <<>>

IdleMerge == i = 0 /\ current = NoItem /\ merged = <<>> /\ steps = <<>>

NoStats == [stdLineHeight |-> [num |-> 0, den |-> 1], paraGapThreshold |-> [num |-> 0, den |-> 1]]

IdleStats ==
    yCoords = <<>> /\ gaps = <<>> /\ frequency = <<>> /\ mode = 0 /\ stats = NoStats

IdleGroup ==
    /\ runs = <<>> /\ viewport = [width |-> 0, height |-> 0] /\ lineMap = <<>>
    /\ sortedY = <<>> /\ lineStats = NoStats /\ previousY = 0 /\ previousX = 0
    /\ pageItems = <<>> /\ currentGroup = 0 /\ li = 0 /\ ri = 0

IdleFit ==
    /\ fitItems = <<>> /\ fitIdx = 0 /\ userLineSpacing = 0
    /\ scale = 0 /\ spans = <<>>

IdleDoc ==
    docs = <<>> /\ call = 0 /\ pageNum = 0 /\ pages = <<>> /\ returned = <<>>

IdleXlat ==
    /\ heap = <<>> /\ inputHeap = <<>> /\ structure = <<>> /\ newPages = <<>>
    /\ pIdx = 0 /\ tItems = <<>> /\ textIndices = <<>> /\ bi = 0 /\ ti = 0
    /\ result = <<>> /\ outcomes = {}

IdleExport ==
    /\ targetLanguage = "" /\ nPages = 0 /\ headStyles = {} /\ embedFontData = ""
    /\ activeFontName = "" /\ pdfFont = "" /\ rendered = FALSE /\ textLayer = <<>>
    /\ failures = {}

IdleDocx ==
    /\ docxBody = <<>> /\ docxWork = <<>> /\ docxPages = <<>>
    /\ currentPageItems = <<>> /\ currentY = 0

NothingThrown == [code |-> "none"]

IdleRetry ==
    /\ retryI = 0 /\ attempts = <<>> /\ delays = <<>>
    /\ retryThrown = NothingThrown /\ retryReturned = <<>>

IdleLoad == loadPc = <<>> /\ loadId = <<>> /\ styleElements = <<>>

IdleExtra == IdleDocx /\ IdleRetry /\ IdleLoad /\ progress = <<>>

IdleLater == IdleFit /\ IdleDoc /\ IdleXlat /\ IdleExport /\ IdleExtra

\* The page reconstruction is idle
IdleCore == items = <<>> /\ IdleOrder /\ IdleMerge /\ IdleStats /\ IdleGroup

coreVars == <<items, orderVars, mergeVars, statsVars, groupVars>>

\* What extractDocxStructure, callGeminiWithRetry and loadFontSet leave alone
earlierVars == <<coreVars, fitVars, docVars, xlatVars, exportVars, progress>>

exceptDocx == <<earlierVars, retryVars, loadVars>>

exceptRetry == <<earlierVars, docxVars, loadVars>>

exceptLoad == <<earlierVars, docxVars, retryVars>>

----------------------------------------------------------------------------
(* Helpers                                                                 *)

Abs(n) == IF n < 0 THEN -n ELSE n

Max(a, b) == IF a >= b THEN a ELSE b

Min(a, b) == IF a <= b THEN a ELSE b

Range(seq) == {seq[k] : k \in 1..Len(seq)}

\* All sequences over S of length 0..n
SeqsUpTo(S, n) == UNION {[1..k -> S] : k \in 0..n}

\* The permutations of 1..n
Perms(n) == {f \in [1..n -> 1..n] : \A a, b \in 1..n : f[a] = f[b] => a = b}

----------------------------------------------------------------------------
(* reorderItemsByReadingFlow                                               *)

MaxItems == 4

MIN_COL_GAP == 14

MIN_ROW_GAP == 6

\* findSplit's `null`
NoSplit == -1

\* The boxes a page item is drawn from (page units).  Two columns 0..30 and
\* 50..80 (gap 20 > 14), rows 0..10 and 20..30 (gap 10 > 6), a box 44..74 (gap
\* of exactly 14 to the left column), an image line at y = 16 (gap of exactly
\* 6 below the first row), boxes overlapping in y, a zero-size path whose
\* centre is the midpoint 40 of the column gap and a rule across both columns.
Boxes == {
    [type |-> "text",  x |-> 0,  y |-> 0,  width |-> 30,  height |-> 10],
    [type |-> "table", x |-> 0,  y |-> 20, width |-> 30,  height |-> 10],
    [type |-> "text",  x |-> 50, y |-> 0,  width |-> 30,  height |-> 10],
    [type |-> "text",  x |-> 50, y |-> 4,  width |-> 30,  height |-> 10],
    [type |-> "text",  x |-> 44, y |-> 8,  width |-> 30,  height |-> 10],
    [type |-> "image", x |-> 10, y |-> 16, width |-> 34,  height |-> 0],
    [type |-> "path",  x |-> 40, y |-> 0,  width |-> 0,   height |-> 0],
    [type |-> "path",  x |-> 0,  y |-> 35, width |-> 100, height |-> 0]
}

\* A list of items; the identity of an item is its position in the input.
WithIds(boxes) ==
    [k \in 1..Len(boxes) |->
        [id |-> k, type |-> boxes[k].type, x |-> boxes[k].x, y |-> boxes[k].y,
         width |-> boxes[k].width, height |-> boxes[k].height]]

Box(type, x, y) == [type |-> type, x |-> x, y |-> y, width |-> 30, height |-> 10]

\* Further lists: two items 50 apart side by side and one above the other,
\* in both input orders, and three lines staggered down to the left, each
\* 6 above and 10 right of the next.
ExampleLists == {
    <<Box("text", 0, 0), Box("text", 80, 0)>>,
    <<Box("text", 80, 0), Box("text", 0, 0)>>,
    <<Box("text", 0, 0), Box("image", 10, 60)>>,
    <<Box("image", 10, 60), Box("text", 0, 0)>>,
    <<Box("text", 0, 12), Box("text", 10, 6), Box("text", 20, 0)>>
}

ItemLists == {WithIds(b) : b \in SeqsUpTo(Boxes, MaxItems) \cup ExampleLists}

getContributors(list) ==
    SelectSeq(list, LAMBDA it : it.type = "text" \/ it.type = "image" \/ it.type = "table")

Interval(it, axis) ==
    IF axis = "x" THEN [s |-> it.x, e |-> it.x + it.width]
                  ELSE [s |-> it.y, e |-> it.y + it.height]

\* .sort((a, b) => a.s - b.s): a stable sort by start
RECURSIVE SortByStart(_)
SortByStart(seq) ==
    IF Len(seq) <= 1 THEN seq
    ELSE LET rest == SortByStart(SubSeq(seq, 1, Len(seq) - 1))
             last == seq[Len(seq)]
             k    == Cardinality({j \in 1..Len(rest) : rest[j].s <= last.s})
         IN  SubSeq(rest, 1, k) \o <<last>> \o SubSeq(rest, k + 1, Len(rest))

\* The merging loop; next.s < current.e - 0.1 is compared in tenths.
RECURSIVE MergeIntervals(_, _, _, _)
MergeIntervals(intervals, k, cur, acc) ==
    IF k > Len(intervals) THEN Append(acc, cur)
    ELSE LET next == intervals[k] IN
         IF 10 * next.s < 10 * cur.e - 1
         THEN MergeIntervals(intervals, k + 1,
                             [cur EXCEPT !.e = Max(cur.e, next.e)], acc)
         ELSE MergeIntervals(intervals, k + 1, next, Append(acc, cur))

\* Twice the midpoint (e + s) / 2 of a gap; a centre x + width/2 is compared
\* with it as 2x + width, so that halves stay exact.
Midpoint2Unhalved(e, s) == 2 * (e + s)
Midpoint2(e, s) == e + s

\* The loop with a gap of exactly the minimum size accepted.
RECURSIVE ScanGapsClosed(_, _, _, _, _)
ScanGapsClosed(ivs, k, minSize, maxGapSize, bestGap) ==
    IF k > Len(ivs) - 1 THEN bestGap
    ELSE LET gapSize == ivs[k + 1].s - ivs[k].e IN
         IF gapSize >= minSize /\ gapSize > maxGapSize
         THEN ScanGapsClosed(ivs, k + 1, minSize, gapSize,
                             Midpoint2(ivs[k].e, ivs[k + 1].s))
         ELSE ScanGapsClosed(ivs, k + 1, minSize, maxGapSize, bestGap)

\* The loop over the gaps between consecutive merged intervals.
RECURSIVE ScanGaps(_, _, _, _, _)
ScanGaps(ivs, k, minSize, maxGapSize, bestGap) ==
    IF k > Len(ivs) - 1 THEN bestGap
    ELSE LET gapSize == ivs[k + 1].s - ivs[k].e IN
         IF gapSize > minSize /\ gapSize > maxGapSize
         THEN ScanGaps(ivs, k + 1, minSize, gapSize,
                       Midpoint2(ivs[k].e, ivs[k + 1].s))
         ELSE ScanGaps(ivs, k + 1, minSize, maxGapSize, bestGap)

\* findSplit(list, axis): twice the split coordinate, or NoSplit.
findSplit(list, axis) ==
    LET contributors == getContributors(list) IN
    IF Len(contributors) < 2 THEN NoSplit
    ELSE LET intervals == SortByStart([k \in 1..Len(contributors) |->
                                          Interval(contributors[k], axis)])
             mergedIvs == MergeIntervals(intervals, 2, intervals[1], <<>>)
             minSize   == IF axis = "x" THEN MIN_COL_GAP ELSE MIN_ROW_GAP
         IN  ScanGaps(mergedIvs, 1, minSize, 0, NoSplit)

\* Twice the centre of an item on an axis.
Centre2(it, axis) == IF axis = "x" THEN 2 * it.x + it.width ELSE 2 * it.y + it.height

\* list.filter(i => centre < split) and list.filter(i => centre >= split)
Before(list, axis, split2) == SelectSeq(list, LAMBDA it : Centre2(it, axis) < split2)

AfterOnly(list, axis, split2) == SelectSeq(list, LAMBDA it : Centre2(it, axis) > split2)
AfterOrAt(list, axis, split2) == SelectSeq(list, LAMBDA it : Centre2(it, axis) >= split2)

\* The comparator of the atomic sort.
Compare(a, b) == IF Abs(a.y - b.y) > 6 THEN a.y - b.y ELSE a.x - b.x

\* A consistent comparator orders the list's items as a strict weak order.
Consistent(list) ==
    \A a, b, c \in Range(list) :
        /\ (Compare(a, b) < 0 /\ Compare(b, c) < 0) => Compare(a, c) < 0
        /\ (Compare(a, b) = 0 /\ Compare(b, c) = 0) => Compare(a, c) = 0
        /\ (Compare(a, b) = 0 /\ Compare(b, c) < 0) => Compare(a, c) < 0
        /\ (Compare(a, b) < 0 /\ Compare(b, c) = 0) => Compare(a, c) < 0

\* Array.prototype.sort with a consistent comparator: the stable sorted order.
RECURSIVE StableSort(_)
StableSort(seq) ==
    IF Len(seq) <= 1 THEN seq
    ELSE LET rest == StableSort(SubSeq(seq, 1, Len(seq) - 1))
             last == seq[Len(seq)]
             k    == Cardinality({j \in 1..Len(rest) : Compare(rest[j], last) <= 0})
         IN  SubSeq(rest, 1, k) \o <<last>> \o SubSeq(rest, k + 1, Len(rest))

\* The orders list.sort(comparator) may leave: the stable sorted order, or,
\* when the comparator is not consistent on the list, an order the engine
\* chooses (ECMAScript leaves it implementation-defined): any permutation.
SortOutcomes(list) ==
    IF Consistent(list) THEN {StableSort(list)}
    ELSE {[k \in 1..Len(list) |-> list[p[k]]] : p \in Perms(Len(list))}

InitOrder ==
    /\ pc = "recursiveOrder"
    /\ items \in ItemLists
    /\ work = <<items>>
    /\ out = <<>>
    /\ calls = <<>>
    /\ IdleMerge /\ IdleStats /\ IdleGroup /\ IdleLater

\* if (list.length <= 1) return list;
ReturnShort ==
    /\ pc = "recursiveOrder" /\ work # <<>>
    /\ Len(Head(work)) <= 1
    /\ out' = out \o Head(work)
    /\ work' = Tail(work)
    /\ calls' = Append(calls, [list |-> Head(work), kind |-> "short",
                               first |-> <<>>, second |-> <<>>])
    /\ UNCHANGED <<laterVars, pc, items, mergeVars, statsVars, groupVars>>

\* const splitX = findSplit(list, 'x'); if (splitX !== null) ...
SplitX ==
    /\ pc = "recursiveOrder" /\ work # <<>>
    /\ Len(Head(work)) > 1
    /\ LET list   == Head(work)
           splitX == findSplit(list, "x")
           left   == Before(list, "x", splitX)
           right  == AfterOrAt(list, "x", splitX)
       IN  /\ splitX # NoSplit
           /\ work' = <<left, right>> \o Tail(work)
           /\ calls' = Append(calls, [list |-> list, kind |-> "x",
                                      first |-> left, second |-> right])
    /\ UNCHANGED <<laterVars, pc, items, out, mergeVars, statsVars, groupVars>>

\* The y-split tried without looking at the x-axis first.
SplitYUnguarded ==
    /\ pc = "recursiveOrder" /\ work # <<>>
    /\ Len(Head(work)) > 1
    /\ LET list   == Head(work)
           splitY == findSplit(list, "y")
           top    == Before(list, "y", splitY)
           bottom == AfterOrAt(list, "y", splitY)
       IN  /\ splitY # NoSplit
           /\ work' = <<top, bottom>> \o Tail(work)
           /\ calls' = Append(calls, [list |-> list, kind |-> "y",
                                      first |-> top, second |-> bottom])
    /\ UNCHANGED <<laterVars, pc, items, out, mergeVars, statsVars, groupVars>>

\* const splitY = findSplit(list, 'y'); if (splitY !== null) ...
SplitY ==
    /\ pc = "recursiveOrder" /\ work # <<>>
    /\ Len(Head(work)) > 1
    /\ LET list   == Head(work)
           splitY == findSplit(list, "y")
           top    == Before(list, "y", splitY)
           bottom == AfterOrAt(list, "y", splitY)
       IN  /\ findSplit(list, "x") = NoSplit
           /\ splitY # NoSplit
           /\ work' = <<top, bottom>> \o Tail(work)
           /\ calls' = Append(calls, [list |-> list, kind |-> "y",
                                      first |-> top, second |-> bottom])
    /\ UNCHANGED <<laterVars, pc, items, out, mergeVars, statsVars, groupVars>>

\* return list.sort(...)
SortAtomic ==
    /\ pc = "recursiveOrder" /\ work # <<>>
    /\ Len(Head(work)) > 1
    /\ findSplit(Head(work), "x") = NoSplit
    /\ findSplit(Head(work), "y") = NoSplit
    /\ \E sorted \in SortOutcomes(Head(work)) :
          /\ out' = out \o sorted
          /\ calls' = Append(calls, [list |-> Head(work), kind |-> "atomic",
                                     first |-> sorted, second |-> <<>>])
    /\ work' = Tail(work)
    /\ UNCHANGED <<laterVars, pc, items, mergeVars, statsVars, groupVars>>

\* return recursiveOrder(items);
ReturnOrder ==
    /\ pc = "recursiveOrder" /\ work = <<>>
    /\ pc' = "ordered"
    /\ UNCHANGED <<laterVars, items, work, out, calls, mergeVars, statsVars, groupVars>>

NextOrder == ReturnShort \/ SplitX \/ SplitY \/ SortAtomic \/ ReturnOrder

SpecOrder == InitOrder /\ [][NextOrder]_vars

----------------------------------------------------------------------------
(* Claims about reorderItemsByReadingFlow (SpecOrder)                      *)

\* The position of item it in the returned order (0 when it is missing).
PosInOut(it) == IF \E k \in 1..Len(out) : out[k] = it
                THEN CHOOSE k \in 1..Len(out) : out[k] = it ELSE 0

IsSplit(c) == c.kind = "x" \/ c.kind = "y"

HasPath(list) == \E k \in 1..Len(list) : list[k].type = "path"

\* C1: the list reorderItemsByReadingFlow returns is a permutation of its
\* input: it has the input's length and holds every input item (an item is
\* its id together with its fields) exactly once.
C1_Permutation ==
    pc = "ordered" =>
        /\ Len(out) = Len(items)
        /\ \A k \in 1..Len(items) :
              Cardinality({j \in 1..Len(out) : out[j] = items[k]}) = 1

\* C1 witness: a finished run over a list with a path item in which an
\* x-split, a y-split and an atomic sort of two or more items all happened
\* and the order changed.
C1_Witness ==
    /\ pc = "ordered" /\ HasPath(items) /\ out # items
    /\ \E a, b, c \in Range(calls) :
          a.kind = "x" /\ b.kind = "y" /\ c.kind = "atomic" /\ Len(c.list) >= 2

\* C2: columns before rows.  For every list recursiveOrder was called on for
\* which findSplit(list, 'x') gives a split, every item of the list whose
\* horizontal centre is left of the split precedes in the result every item
\* whose centre is at or right of it, whatever their y; and a y-split is only
\* made on a list that has no x-split.
C2_ColumnsFirst ==
    /\ \A c \in Range(calls) : c.kind = "y" => findSplit(c.list, "x") = NoSplit
    /\ pc = "ordered" =>
          \A c \in Range(calls) :
             LET splitX == findSplit(c.list, "x") IN
             splitX # NoSplit =>
                \A a, b \in Range(c.list) :
                   (Centre2(a, "x") < splitX /\ Centre2(b, "x") >= splitX)
                      => PosInOut(a) < PosInOut(b)

\* C2 witness: a finished run on a list with an x-split and a y-split at the
\* top level, whose left part holds an item lower on the page than an item of
\* the right part.
C2_Witness ==
    /\ pc = "ordered"
    /\ findSplit(items, "x") # NoSplit /\ findSplit(items, "y") # NoSplit
    /\ \E a, b \in Range(items) :
          /\ Centre2(a, "x") < findSplit(items, "x")
          /\ Centre2(b, "x") >= findSplit(items, "x")
          /\ a.y > b.y + b.height + MIN_ROW_GAP
          /\ PosInOut(a) < PosInOut(b)

\* C3: recursiveOrder terminates.  Every split leaves two non-empty
\* partitions, so each recursive call is on a strictly shorter list; the
\* number of calls made is at most 2n - 1 for n items (1 for an empty list).
C3_Terminates ==
    /\ \A c \in Range(calls) :
          IsSplit(c) => /\ Len(c.first) > 0 /\ Len(c.second) > 0
                        /\ Len(c.first) < Len(c.list) /\ Len(c.second) < Len(c.list)
    /\ Len(calls) <= Max(1, 2 * Len(items) - 1)

\* C3 witness: a finished run with a split of a list that mixes contributing
\* items with a path item, and a later call on a list with no qualifying gap.
C3_Witness ==
    /\ pc = "ordered"
    /\ \E c, d \in Range(calls) :
          /\ IsSplit(c) /\ HasPath(c.list)
          /\ d.kind = "atomic"

\* The positions of the text, image and table items of a list.
Contributing(list) ==
    {k \in 1..Len(list) : list[k].type \in {"text", "image", "table"}}

MinGap(axis) == IF axis = "x" THEN 14 ELSE 6

\* The gaps of a list on an axis wider than the minimum: an item's end e and
\* an item's start s with no contributing item reaching into (e, s).
QualifyingGaps(list, axis) ==
    LET ivs == {Interval(list[k], axis) : k \in Contributing(list)} IN
    {g \in {<<iv.e, jv.s>> : iv \in ivs, jv \in ivs} :
        /\ g[2] - g[1] > MinGap(axis)
        /\ ~ \E iv \in ivs : iv.s < g[2] /\ iv.e > g[1]}

\* Twice the midpoint of the largest qualifying gap (the lowest one of
\* several equally large ones), or NoSplit.
LargestGapMidpoint2(list, axis) ==
    LET wide == QualifyingGaps(list, axis) IN
    IF Cardinality(Contributing(list)) < 2 \/ wide = {} THEN NoSplit
    ELSE LET g == CHOOSE g \in wide : \A h \in wide :
                     \/ h[2] - h[1] < g[2] - g[1]
                     \/ h[2] - h[1] = g[2] - g[1] /\ h[1] >= g[1]
         IN  g[1] + g[2]

WithoutPaths(list) == SelectSeq(list, LAMBDA it : it.type # "path")

Overlap(a, b, axis) ==
    /\ Interval(a, axis).s < Interval(b, axis).e
    /\ Interval(b, axis).s < Interval(a, axis).e

SortedByYThenX(seq) ==
    \A k, l \in 1..Len(seq) : k < l =>
        LET a == seq[k]
            b == seq[l]
        IN  /\ ~ (a.y > b.y + 6)
            /\ Abs(a.y - b.y) <= 6 => a.x <= b.x

\* C18: the list returned when neither axis has a qualifying gap is sorted by
\* y with x as tie-break: of two items a before b, a.y does not exceed b.y by
\* more than 6, and a.x <= b.x when their y differ by at most 6.
C18_AtomicSorted ==
    \A c \in Range(calls) : c.kind = "atomic" => SortedByYThenX(c.first)

\* Whatever order the sort leaves: some order of the atomic list is sorted.
AtomicOrderExists ==
    \A c \in Range(calls) : c.kind = "atomic" =>
        \E p \in Perms(Len(c.list)) :
            SortedByYThenX([k \in 1..Len(c.list) |-> c.list[p[k]]])

\* With a consistent comparator the atomic list is sorted.
ConsistentAtomicSorted ==
    \A c \in Range(calls) :
        c.kind = "atomic" /\ Consistent(c.list) => SortedByYThenX(c.first)

----------------------------------------------------------------------------
(* mergeTextBlocks                                                         *)
(* A text is the sequence of its characters, each a one-character string   *)
(* (the bullet glyphs, which are not ASCII, are written by name).          *)

MaxLines == 3

BULLET == "BULLET"

BLACKCIRCLE == "BLACKCIRCLE"

\* What \s and String.prototype.trim treat as white space (of the characters used)
WhiteSpace == {" ", "\t", "\n"}

Digits == {"0", "1", "2", "3", "4", "5", "6", "7", "8", "9"}

\* text.trim()
RECURSIVE TrimStart(_)
TrimStart(text) ==
    IF text # <<>> /\ Head(text) \in WhiteSpace THEN TrimStart(Tail(text)) ELSE text

RECURSIVE TrimEnd(_)
TrimEnd(text) ==
    IF text # <<>> /\ text[Len(text)] \in WhiteSpace
    THEN TrimEnd(SubSeq(text, 1, Len(text) - 1)) ELSE text

trim(text) == TrimEnd(TrimStart(text))

\* text.endsWith('-')
endsWithHyphen(text) == text # <<>> /\ text[Len(text)] = "-"

\* text.slice(0, -1)
sliceLast(text) == IF text = <<>> THEN <<>> ELSE SubSeq(text, 1, Len(text) - 1)

\* /^[•●\-\*]\s/.test(text)
MatchesGlyphMarker(text) ==
    /\ Len(text) >= 2
    /\ text[1] \in {BULLET, BLACKCIRCLE, "-", "*"}
    /\ text[2] \in WhiteSpace

\* The number of leading digits of a text
RECURSIVE LeadingDigits(_)
LeadingDigits(text) ==
    IF text # <<>> /\ Head(text) \in Digits THEN 1 + LeadingDigits(Tail(text)) ELSE 0

\* /^\d+[\.\)]\s/.test(text)
MatchesNumberMarker(text) ==
    LET d == LeadingDigits(text) IN
    /\ d >= 1
    /\ Len(text) >= d + 2
    /\ text[d + 1] \in {".", ")"}
    /\ text[d + 2] \in WhiteSpace

isList(text) == MatchesGlyphMarker(text) \/ MatchesNumberMarker(text)

\* A text line: by default font F1, size 10, x = 0, width 100, height 10.
Line(text, y) ==
    [type |-> "text", text |-> text, x |-> 0, y |-> y, width |-> 100, height |-> 10,
     fontSize |-> 10, fontName |-> "F1", indent |-> 0]

\* The items a merge input is drawn from.  Lines at y = 0, 13, 25 and 26 (for a
\* first line of size 10 the gap limit is 25); texts ending in a hyphen, with
\* white space around it, starting with list markers and with near-markers;
\* another font, sizes 11 and 12; x offsets 6, 19 and 20 with widths that make
\* the line flow or not; an image.
MergeBoxes == {
    Line(<<"a">>, 0),
    Line(<<"a", "-">>, 0),
    Line(<<" ", "a", "-", " ">>, 0),
    [Line(<<"a">>, 0) EXCEPT !.x = 6],
    Line(<<"b">>, 13),
    Line(<<BULLET, " ", "b">>, 13),
    Line(<<"-", " ", "b">>, 13),
    Line(<<"1", ".", " ", "b">>, 13),
    Line(<<"1", "2", ")", " ", "b">>, 13),
    Line(<<"-", "b">>, 13),
    [Line(<<"b">>, 13) EXCEPT !.fontName = "F2"],
    [Line(<<"b">>, 13) EXCEPT !.fontSize = 11],
    [Line(<<"b">>, 13) EXCEPT !.fontSize = 12],
    [Line(<<"b">>, 13) EXCEPT !.x = 20],
    [Line(<<"b">>, 13) EXCEPT !.x = 20, !.width = 130],
    [Line(<<"b">>, 13) EXCEPT !.x = 19, !.width = 130],
    [type |-> "image", x |-> 0, y |-> 13, width |-> 100, height |-> 10],
    Line(<<"c">>, 25),
    Line(<<"c">>, 26)
}

\* Further lists: a second line that starts 5 units left of the first, and
\* a second line of the smaller size 10 set 1 unit below a taller first line.
MergeExamples == {
    <<[Line(<<"a">>, 0) EXCEPT !.x = 5], Line(<<"b">>, 13)>>,
    <<[Line(<<"a">>, 0) EXCEPT !.fontSize = 11, !.height = 12], Line(<<"b">>, 1)>>
}

MergeLists == SeqsUpTo(MergeBoxes, MaxLines) \cup MergeExamples

\* The fusion test of one loop iteration on two text items
sameFont(cur, next) == cur.fontName = next.fontName

sameSize(cur, next) == Abs(cur.fontSize - next.fontSize) < 2

lineSpacing(cur, next) == next.y - cur.y

\* lineSpacing < current.fontSize * 2.5, compared doubled
isContinuousVerticalClosed(cur, next) ==
    lineSpacing(cur, next) > 0 /\ 2 * lineSpacing(cur, next) <= 5 * cur.fontSize
isContinuousVertical(cur, next) ==
    lineSpacing(cur, next) > 0 /\ 2 * lineSpacing(cur, next) < 5 * cur.fontSize

isAlignedLeft(cur, next) == Abs(cur.x - next.x) < 20

isFlowing(cur, next) ==
    next.x >= cur.x - 40 /\ next.x + next.width <= cur.x + cur.width + 40

ShouldMergeListsToo(cur, next) ==
    /\ sameFont(cur, next) /\ sameSize(cur, next) /\ isContinuousVertical(cur, next)
    /\ (isAlignedLeft(cur, next) \/ isFlowing(cur, next))
ShouldMerge(cur, next) ==
    /\ sameFont(cur, next) /\ sameSize(cur, next) /\ isContinuousVertical(cur, next)
    /\ (isAlignedLeft(cur, next) \/ isFlowing(cur, next))
    /\ ~isList(next.text)

\* The text of the fused item
MergedTextSpaced(cur, next) ==
    IF endsWithHyphen(trim(cur.text))
    THEN sliceLast(trim(cur.text)) \o <<" ">> \o next.text
    ELSE cur.text \o <<" ">> \o next.text
MergedTextKeepsHyphen(cur, next) ==
    IF endsWithHyphen(trim(cur.text))
    THEN trim(cur.text) \o next.text
    ELSE cur.text \o <<" ">> \o next.text
MergedText(cur, next) ==
    IF endsWithHyphen(trim(cur.text))
    THEN sliceLast(trim(cur.text)) \o next.text
    ELSE cur.text \o <<" ">> \o next.text

\* current after the fusion with next
Fused(cur, next) ==
    LET newX      == Min(cur.x, next.x)
        newWidth  == Max(cur.x + cur.width, next.x + next.width) - newX
        newHeight == (next.y + next.height) - cur.y
        hanging   == next.x < cur.x - 5
    IN  [cur EXCEPT !.text   = MergedText(cur, next),
                    !.indent = IF hanging THEN cur.indent + (cur.x - next.x) ELSE @,
                    !.x      = IF hanging THEN next.x ELSE @,
                    !.width  = newWidth,
                    !.height = newHeight]

BothText(cur, next) == cur.type = "text" /\ next.type = "text"

InitMerge ==
    /\ pc = "mergeTextBlocks"
    /\ items \in MergeLists
    /\ i = 0 /\ current = NoItem /\ merged = <<>> /\ steps = <<>>
    /\ IdleOrder /\ IdleStats /\ IdleGroup /\ IdleLater

\* if (items.length === 0) return [];
MergeEmpty ==
    /\ pc = "mergeTextBlocks" /\ i = 0
    /\ Len(items) = 0
    /\ pc' = "merged"
    /\ UNCHANGED <<laterVars, items, mergeVars, orderVars, statsVars, groupVars>>

\* let current = items[0]; for (let i = 1; ...
MergeStart ==
    /\ pc = "mergeTextBlocks" /\ i = 0
    /\ Len(items) > 0
    /\ current' = items[1]
    /\ i' = 2
    /\ UNCHANGED <<laterVars, pc, items, merged, steps, orderVars, statsVars, groupVars>>

\* The non-text branch without merged.push(current).
PassThroughUnpushed ==
    /\ pc = "mergeTextBlocks" /\ i >= 2 /\ i <= Len(items)
    /\ ~BothText(current, items[i])
    /\ current' = items[i]
    /\ steps' = Append(steps, [cur |-> current, next |-> items[i], kind |-> "pass",
                               result |-> items[i]])
    /\ i' = i + 1
    /\ UNCHANGED <<laterVars, pc, items, merged, orderVars, statsVars, groupVars>>

\* if (!isText) { merged.push(current); current = next; continue; }
PassThrough ==
    /\ pc = "mergeTextBlocks" /\ i >= 2 /\ i <= Len(items)
    /\ ~BothText(current, items[i])
    /\ merged' = Append(merged, current)
    /\ current' = items[i]
    /\ steps' = Append(steps, [cur |-> current, next |-> items[i], kind |-> "pass",
                               result |-> items[i]])
    /\ i' = i + 1
    /\ UNCHANGED <<laterVars, pc, items, orderVars, statsVars, groupVars>>

\* if (sameFont && ... && !isList) { ...current grows... }
Fuse ==
    /\ pc = "mergeTextBlocks" /\ i >= 2 /\ i <= Len(items)
    /\ BothText(current, items[i])
    /\ ShouldMerge(current, items[i])
    /\ current' = Fused(current, items[i])
    /\ steps' = Append(steps, [cur |-> current, next |-> items[i], kind |-> "fuse",
                               result |-> Fused(current, items[i])])
    /\ i' = i + 1
    /\ UNCHANGED <<laterVars, pc, items, merged, orderVars, statsVars, groupVars>>

\* else { merged.push(current); current = next; }
Emit ==
    /\ pc = "mergeTextBlocks" /\ i >= 2 /\ i <= Len(items)
    /\ BothText(current, items[i])
    /\ ~ShouldMerge(current, items[i])
    /\ merged' = Append(merged, current)
    /\ current' = items[i]
    /\ steps' = Append(steps, [cur |-> current, next |-> items[i], kind |-> "emit",
                               result |-> items[i]])
    /\ i' = i + 1
    /\ UNCHANGED <<laterVars, pc, items, orderVars, statsVars, groupVars>>

\* merged.push(current); return merged;
MergeReturn ==
    /\ pc = "mergeTextBlocks" /\ i > Len(items)
    /\ merged' = Append(merged, current)
    /\ pc' = "merged"
    /\ UNCHANGED <<laterVars, items, i, current, steps, orderVars, statsVars, groupVars>>

NextMerge == MergeEmpty \/ MergeStart \/ PassThrough \/ Fuse \/ Emit \/ MergeReturn

SpecMerge == InitMerge /\ [][NextMerge]_vars

----------------------------------------------------------------------------
(* Claims about mergeTextBlocks (SpecMerge)                                *)

FuseSteps == {s \in Range(steps) : s.kind = "fuse"}

\* The steps that did not fuse, in order: each pushed its current item.
UnfusedSteps == SelectSeq(steps, LAMBDA s : s.kind # "fuse")

\* Text with the white space at both ends removed, said without recursion:
\* what lies between the first and the last character that is not white space.
Trimmed(text) ==
    LET solid == {k \in 1..Len(text) : text[k] \notin WhiteSpace} IN
    IF solid = {} THEN <<>>
    ELSE SubSeq(text, CHOOSE k \in solid : \A m \in solid : k <= m,
                      CHOOSE k \in solid : \A m \in solid : k >= m)

Dehyphenated(s) == Trimmed(s.cur.text) # <<>> /\ Trimmed(s.cur.text)[Len(Trimmed(s.cur.text))] = "-"

\* A text that begins with a list marker: a glyph and white space, or digits,
\* '.' or ')' and white space.
StartsWithListMarker(text) ==
    \/ /\ Len(text) >= 2
       /\ text[1] \in {BULLET, BLACKCIRCLE, "-", "*"}
       /\ text[2] \in WhiteSpace
    \/ \E d \in 1..Len(text) :
          /\ \A k \in 1..d : text[k] \in Digits
          /\ Len(text) >= d + 2
          /\ text[d + 1] \in {".", ")"}
          /\ text[d + 2] \in WhiteSpace

\* The fusion test as C4 states it, for a the item being grown and b the next.
C4_Test(a, b) ==
    /\ a.fontName = b.fontName
    /\ Abs(a.fontSize - b.fontSize) < 2
    /\ b.y - a.y > 0
    /\ 2 * (b.y - a.y) < 5 * a.fontSize
    /\ \/ Abs(a.x - b.x) < 20
       \/ (b.x >= a.x - 40 /\ b.x + b.width <= a.x + a.width + 40)
    /\ ~StartsWithListMarker(b.text)

\* C4: in every loop iteration on two text items, a (the item being grown) and
\* the next item b are fused if and only if all five conditions hold; when one
\* fails, a is pushed to the output as it is and b becomes the current item.
C4_FusionTest ==
    /\ \A s \in Range(steps) :
          (s.cur.type = "text" /\ s.next.type = "text")
             => ((s.kind = "fuse") <=> C4_Test(s.cur, s.next))
    /\ \A k \in 1..Len(UnfusedSteps) :
          /\ k <= Len(merged)
          /\ merged[k] = UnfusedSteps[k].cur
    /\ \A k \in 1..Len(steps) :
          steps[k].kind # "fuse" =>
             (IF k < Len(steps) THEN steps[k + 1].cur ELSE current) = steps[k].next

\* C4 witness: a finished run with a fusion and with two text items left apart
\* only because their gap is exactly 2.5 times the font size.
C4_Witness ==
    /\ pc = "merged"
    /\ FuseSteps # {}
    /\ \E s \in Range(steps) :
          /\ s.kind = "emit"
          /\ 2 * (s.next.y - s.cur.y) = 5 * s.cur.fontSize
          /\ s.cur.fontName = s.next.fontName /\ s.cur.x = s.next.x
          /\ ~StartsWithListMarker(s.next.text)

\* A paragraph as C5 describes it: two or more text lines, same font, size and
\* x, a constant pitch p with 0 < p < 2.5 * fontSize, no list marker.
IsParagraph(list) ==
    /\ Len(list) >= 2
    /\ \A k \in 1..Len(list) : list[k].type = "text"
    /\ \A k \in 1..(Len(list) - 1) :
          /\ list[k].fontName = list[k + 1].fontName
          /\ list[k].fontSize = list[k + 1].fontSize
          /\ list[k].x = list[k + 1].x
          /\ list[k + 1].y - list[k].y = list[2].y - list[1].y
          /\ list[k + 1].y - list[k].y > 0
          /\ 2 * (list[k + 1].y - list[k].y) < 5 * list[k].fontSize
          /\ ~StartsWithListMarker(list[k + 1].text)

\* C5: a paragraph of N >= 2 lines, every adjacent pair of which passes the
\* fusion test, is merged into a single text item.
C5_ParagraphFusedWhole ==
    (pc = "merged" /\ IsParagraph(items)) => Len(merged) = 1

\* C6: the text of a fused item is a's trimmed text without its final hyphen
\* followed directly by b's text when a's trimmed text ends with '-', and
\* otherwise a's text, one space, b's text.
C6_MergedText ==
    \A s \in FuseSteps :
        s.result.text =
            IF Dehyphenated(s)
            THEN SubSeq(Trimmed(s.cur.text), 1, Len(Trimmed(s.cur.text)) - 1) \o s.next.text
            ELSE s.cur.text \o <<" ">> \o s.next.text

\* C6 witness: a finished run that fused once after a hyphen ('a-' then 'b'
\* gives 'ab') and once with a space.
C6_Witness ==
    /\ pc = "merged"
    /\ \E s, r \in FuseSteps :
          /\ s.cur.text = <<"a", "-">> /\ s.next.text = <<"b">>
          /\ s.result.text = <<"a", "b">>
          /\ ~Dehyphenated(r)
          /\ r.result.text = <<"a", "b", " ", "b">>

\* C7 as claimed: the merged text has len(a) + len(b) + 1 characters without
\* de-hyphenation and len(a) + len(b) - 1 with it, for every text a.
C7_LengthAsClaimed ==
    \A s \in FuseSteps :
        Len(s.result.text) =
            Len(s.cur.text) + Len(s.next.text) + (IF Dehyphenated(s) THEN -1 ELSE 1)

\* C7 amended: without de-hyphenation the merged text has len(a) + len(b) + 1
\* characters; with it, len(trim(a)) + len(b) - 1: the white space around a is
\* dropped with the hyphen, so the count is len(a) + len(b) - 1 exactly when a
\* has no white space at either end.
C7_Length ==
    \A s \in FuseSteps :
        /\ ~Dehyphenated(s) =>
              Len(s.result.text) = Len(s.cur.text) + Len(s.next.text) + 1
        /\ Dehyphenated(s) =>
              /\ Len(s.result.text) = Len(Trimmed(s.cur.text)) + Len(s.next.text) - 1
              /\ (Len(s.result.text) = Len(s.cur.text) + Len(s.next.text) - 1
                     <=> Trimmed(s.cur.text) = s.cur.text)

\* C7 witness: a finished run that de-hyphenated ' a- ' (white space on both
\* sides) and lost three characters of it.
C7_Witness ==
    /\ pc = "merged"
    /\ \E s \in FuseSteps :
          /\ Dehyphenated(s)
          /\ s.cur.text = <<" ", "a", "-", " ">>
          /\ Len(s.result.text) = Len(s.next.text) + 1

\* C8: a text item that begins with a list marker is never fused into the
\* item before it; it becomes the current item, so it starts an output item.
C8_ListItemsKept ==
    /\ \A k \in 1..Len(steps) :
          (steps[k].next.type = "text" /\ StartsWithListMarker(steps[k].next.text)) =>
             /\ steps[k].kind # "fuse"
             /\ (IF k < Len(steps) THEN steps[k + 1].cur ELSE current) = steps[k].next
    /\ pc = "merged" =>
          \A k \in 2..Len(items) :
             (items[k].type = "text" /\ StartsWithListMarker(items[k].text)) =>
                \E m \in 1..Len(merged) :
                   /\ merged[m].type = "text"
                   /\ Len(merged[m].text) >= Len(items[k].text)
                   /\ SubSeq(merged[m].text, 1, Len(items[k].text)) = items[k].text
                   /\ merged[m].y = items[k].y

\* C8 witness: a finished run in which a text starting with a list marker
\* followed a text item that it matched in font, size, gap and alignment.
C8_Witness ==
    /\ pc = "merged"
    /\ \E s \in Range(steps) :
          /\ s.cur.type = "text" /\ s.next.type = "text"
          /\ StartsWithListMarker(s.next.text)
          /\ s.cur.fontName = s.next.fontName /\ s.cur.fontSize = s.next.fontSize
          /\ s.next.y - s.cur.y > 0 /\ 2 * (s.next.y - s.cur.y) < 5 * s.cur.fontSize
          /\ s.cur.x = s.next.x
          /\ s.kind = "emit"

\* The box of r is the union of the boxes of a and b.
IsUnionBox(r, a, b) ==
    /\ r.x = Min(a.x, b.x)
    /\ r.x + r.width = Max(a.x + a.width, b.x + b.width)
    /\ r.y = Min(a.y, b.y)
    /\ r.y + r.height = Max(a.y + a.height, b.y + b.height)

\* C19: after a fusion of a and b the merged item's box is the union of both
\* boxes, for every mergeable pair, also when b starts 0 to 5 units left of a
\* and when b's bottom edge is above a's.
C19_UnionBox ==
    \A s \in FuseSteps : IsUnionBox(s.result, s.cur, s.next)

\* The box is the union when b starts at or right of a or more than 5 left
\* of it, and b's bottom edge is not above a's.
UnionBoxOtherwise ==
    \A s \in FuseSteps :
        /\ s.next.x >= s.cur.x \/ s.next.x < s.cur.x - 5
        /\ s.next.y + s.next.height >= s.cur.y + s.cur.height
        => IsUnionBox(s.result, s.cur, s.next)

\* The positions of the input at which an output item begins: the first, and
\* every item that was not fused into the item before it.
OutputStarts ==
    {k \in 1..Len(items) : k = 1 \/ steps[k - 1].kind # "fuse"}

\* The input position at which the m-th output item begins.
StartOf(m) ==
    CHOOSE k \in OutputStarts : Cardinality({j \in OutputStarts : j <= k}) = m

\* The input position at which the m-th output item ends.
EndOf(m) == IF m < Len(merged) THEN StartOf(m + 1) - 1 ELSE Len(items)

\* C20: mergeTextBlocks passes through what it does not fuse.  The output has
\* one item less than the input for every fusion, and is empty exactly when
\* the input is; the output items are, in input order, the runs of items
\* fused together; an item nothing was fused into is in the output unchanged;
\* every item of a longer run is a text item, so a non-text item is passed
\* unchanged and nothing is fused across it.
C20_PassThrough ==
    /\ \A s \in FuseSteps : s.cur.type = "text" /\ s.next.type = "text"
    /\ pc = "merged" =>
          /\ Len(merged) = Len(items) - Cardinality({k \in 1..Len(steps) :
                                                        steps[k].kind = "fuse"})
          /\ (merged = <<>>) <=> (items = <<>>)
          /\ \A m \in 1..Len(merged) :
                /\ StartOf(m) <= EndOf(m)
                /\ StartOf(m) = EndOf(m) => merged[m] = items[StartOf(m)]
                /\ StartOf(m) < EndOf(m) =>
                      /\ \A k \in StartOf(m)..EndOf(m) : items[k].type = "text"
                      /\ merged[m].type = "text"
                      /\ merged[m].y = items[StartOf(m)].y
                      /\ merged[m].fontName = items[StartOf(m)].fontName
                      /\ merged[m].fontSize = items[StartOf(m)].fontSize
          /\ \A k \in 1..Len(items) : items[k].type # "text" =>
                \E m \in 1..Len(merged) : StartOf(m) = k /\ merged[m] = items[k]

\* C20 witness: a finished run on a line, an image and a line, the two lines
\* passing the fusion test with each other, that returned the three items as
\* they were.
C20_Witness ==
    /\ pc = "merged" /\ Len(items) = 3
    /\ items[1].type = "text" /\ items[2].type = "image" /\ items[3].type = "text"
    /\ C4_Test(items[1], items[3])
    /\ merged = items

----------------------------------------------------------------------------
(* calculateLineSpacingStats                                               *)
(* Line coordinates are multiples of 0.5 (extractPdfStructure rounds them  *)
(* so) and are held in half units: the coordinate 114.5 is 229.  A height  *)
(* or threshold, which may be a mean, is the fraction num/den of whole     *)
(* units, computed exactly.                                                *)

MaxCoords == 4

\* The coordinates a y-list is drawn from, in half units: 0, 5, 8, 13.5, 30
\* and 330, whose gaps include 5 and 300 (both discarded), 5.5, 8, 8.5 and 14.
StatsCoords == {0, 10, 16, 27, 60, 660}

MIN_GAP == 5

MAX_GAP == 300

DEFAULT_STD_LINE_HEIGHT == 14

DEFAULT_PARA_GAP_THRESHOLD == 20

MODE_FLOOR == 8

Whole(n) == [num |-> n, den |-> 1]

DefaultStats ==
    [stdLineHeight |-> Whole(DEFAULT_STD_LINE_HEIGHT),
     paraGapThreshold |-> Whole(DEFAULT_PARA_GAP_THRESHOLD)]

\* The loop that collects the gaps: |y[k] - y[k+1]| kept when 5 < gap < 300
RECURSIVE CollectGaps(_, _)
CollectGaps(ys, k) ==
    IF k > Len(ys) - 1 THEN <<>>
    ELSE LET gap == Abs(ys[k] - ys[k + 1]) IN
         IF gap > 2 * MIN_GAP /\ gap < 2 * MAX_GAP
         THEN <<gap>> \o CollectGaps(ys, k + 1)
         ELSE CollectGaps(ys, k + 1)

\* Math.round of a gap given in half units: halves round up
Round(gap) == (gap + 1) \div 2

\* frequency[rounded] = (frequency[rounded] || 0) + 1, over all gaps
Frequency(gs) ==
    [r \in {Round(gs[k]) : k \in 1..Len(gs)} |->
        Cardinality({k \in 1..Len(gs) : Round(gs[k]) = r})]

\* Object.entries(frequency).forEach: the integer keys come in ascending
\* order, and a key replaces the mode only when its count is greater.
RECURSIVE ScanMode(_, _, _, _)
ScanMode(freq, keys, best, maxFreq) ==
    IF keys = {} THEN best
    ELSE LET gap == CHOOSE k \in keys : \A m \in keys : k <= m IN
         IF freq[gap] > maxFreq
         THEN ScanMode(freq, keys \ {gap}, gap, freq[gap])
         ELSE ScanMode(freq, keys \ {gap}, best, maxFreq)

Mode(freq) == ScanMode(freq, DOMAIN freq, 0, 0)

RECURSIVE Sum(_)
Sum(seq) == IF seq = <<>> THEN 0 ELSE Head(seq) + Sum(Tail(seq))

\* gaps.reduce((a,b)=>a+b,0)/gaps.length, the gaps being in half units
Mean(gs) == [num |-> Sum(gs), den |-> 2 * Len(gs)]

\* const std = mode > 8 ? mode : mean
StdFromEight(m, gs) == IF m >= MODE_FLOOR THEN Whole(m) ELSE Mean(gs)
Std(m, gs) == IF m > MODE_FLOOR THEN Whole(m) ELSE Mean(gs)

\* std * 1.5
TimesOneAndAHalf(q) == [num |-> 3 * q.num, den |-> 2 * q.den]

StatsOf(m, gs) ==
    [stdLineHeight |-> Std(m, gs), paraGapThreshold |-> TimesOneAndAHalf(Std(m, gs))]

\* The function as a whole, for its callers
calculateLineSpacingStats(ys) ==
    IF Len(ys) < 2 THEN DefaultStats
    ELSE LET gs == CollectGaps(ys, 1) IN
         IF Len(gs) = 0 THEN DefaultStats
         ELSE StatsOf(Mode(Frequency(gs)), gs)

InitStats ==
    /\ pc = "calculateLineSpacingStats"
    /\ yCoords \in SeqsUpTo(StatsCoords, MaxCoords)
    /\ gaps = <<>> /\ frequency = <<>> /\ mode = 0 /\ stats = NoStats
    /\ items = <<>> /\ IdleOrder /\ IdleMerge /\ IdleGroup /\ IdleLater

\* if (yCoords.length < 2) return { stdLineHeight: 14, paraGapThreshold: 20 };
StatsTooShort ==
    /\ pc = "calculateLineSpacingStats"
    /\ Len(yCoords) < 2
    /\ stats' = DefaultStats
    /\ pc' = "statsReturned"
    /\ UNCHANGED <<laterVars, items, yCoords, gaps, frequency, mode, orderVars, mergeVars, groupVars>>

\* the for loop over consecutive coordinates
StatsCollectGaps ==
    /\ pc = "calculateLineSpacingStats"
    /\ Len(yCoords) >= 2
    /\ gaps' = CollectGaps(yCoords, 1)
    /\ pc' = "statsGaps"
    /\ UNCHANGED <<laterVars, items, yCoords, frequency, mode, stats, orderVars, mergeVars, groupVars>>

\* if (gaps.length === 0) return { stdLineHeight: 14, paraGapThreshold: 20 };
StatsNoGaps ==
    /\ pc = "statsGaps"
    /\ Len(gaps) = 0
    /\ stats' = DefaultStats
    /\ pc' = "statsReturned"
    /\ UNCHANGED <<laterVars, items, yCoords, gaps, frequency, mode, orderVars, mergeVars, groupVars>>

\* gaps.forEach(...) and Object.entries(frequency).forEach(...)
StatsCount ==
    /\ pc = "statsGaps"
    /\ Len(gaps) > 0
    /\ frequency' = Frequency(gaps)
    /\ mode' = Mode(Frequency(gaps))
    /\ pc' = "statsMode"
    /\ UNCHANGED <<laterVars, items, yCoords, gaps, stats, orderVars, mergeVars, groupVars>>

\* const std = ...; return { stdLineHeight: std, paraGapThreshold: std * 1.5 };
StatsReturn ==
    /\ pc = "statsMode"
    /\ stats' = StatsOf(mode, gaps)
    /\ pc' = "statsReturned"
    /\ UNCHANGED <<laterVars, items, yCoords, gaps, frequency, mode, orderVars, mergeVars, groupVars>>

NextStats == StatsTooShort \/ StatsCollectGaps \/ StatsNoGaps \/ StatsCount \/ StatsReturn

SpecStats == InitStats /\ [][NextStats]_vars

----------------------------------------------------------------------------
(* Claims about calculateLineSpacingStats (SpecStats)                      *)

\* Equality and order of two fractions with positive denominators
SameFraction(p, q) == p.num * q.den = q.num * p.den

\* The surviving gaps, said from the input: the k with 5 < |y[k] - y[k+1]| < 300
Surviving == {k \in 1..(Len(yCoords) - 1) :
                 /\ Abs(yCoords[k] - yCoords[k + 1]) > 2 * 5
                 /\ Abs(yCoords[k] - yCoords[k + 1]) < 2 * 300}

GapAt(k) == Abs(yCoords[k] - yCoords[k + 1])

\* The gap at k rounded to the nearest unit (x.5 goes up): r with r - 0.5 <= gap < r + 0.5
RoundedGapAt(k) == CHOOSE r \in 0..(GapAt(k) + 1) : 2 * r - 1 <= GapAt(k) /\ GapAt(k) < 2 * r + 1

CountOf(r) == Cardinality({k \in Surviving : RoundedGapAt(k) = r})

\* The most frequent rounded surviving gap; of several, the smallest
TheMode ==
    CHOOSE r \in {RoundedGapAt(k) : k \in Surviving} :
        \A k \in Surviving :
            \/ CountOf(RoundedGapAt(k)) < CountOf(r)
            \/ (CountOf(RoundedGapAt(k)) = CountOf(r) /\ r <= RoundedGapAt(k))

RECURSIVE SumOver(_)
SumOver(S) == IF S = {} THEN 0 ELSE LET k == CHOOSE k \in S : TRUE IN GapAt(k) + SumOver(S \ {k})

\* The arithmetic mean of the surviving gaps, in whole units
TheMean == [num |-> SumOver(Surviving), den |-> 2 * Cardinality(Surviving)]

\* C9: calculateLineSpacingStats returns (14, 20) for fewer than two
\* coordinates or when no gap survives; otherwise stdLineHeight is the mode
\* of the rounded surviving gaps when the mode is > 8 and the mean of the
\* surviving gaps otherwise, and paraGapThreshold is stdLineHeight * 1.5.  It
\* returns for every input (no step fails), the same result on each run.
C9_Stats ==
    /\ pc = "statsReturned" =>
          /\ (Len(yCoords) < 2 \/ Surviving = {}) =>
                /\ SameFraction(stats.stdLineHeight, Whole(14))
                /\ SameFraction(stats.paraGapThreshold, Whole(20))
          /\ (Len(yCoords) >= 2 /\ Surviving # {}) =>
                /\ TheMode > 8 => SameFraction(stats.stdLineHeight, Whole(TheMode))
                /\ TheMode <= 8 => SameFraction(stats.stdLineHeight, TheMean)
                /\ 2 * stats.paraGapThreshold.num * stats.stdLineHeight.den
                      = 3 * stats.stdLineHeight.num * stats.paraGapThreshold.den
          /\ stats = calculateLineSpacingStats(yCoords)
    /\ stats.stdLineHeight.den > 0 /\ stats.paraGapThreshold.den > 0

\* C9 witness: a returned run whose mode is exactly 8, so that the mean (not
\* 8) is the line height, with a gap of 300 discarded.
C9_Witness ==
    /\ pc = "statsReturned"
    /\ Surviving # {} /\ TheMode = 8
    /\ ~SameFraction(stats.stdLineHeight, Whole(8))
    /\ \E k \in 1..(Len(yCoords) - 1) : GapAt(k) = 2 * 300

----------------------------------------------------------------------------
(* The Line Grouper of extractPdfStructure                                 *)
(* A run is an item of textContent.items: its string (a sequence of        *)
(* characters), transform[4] as x, transform[5] as y4 in quarter units,    *)
(* transform[0] as scale with transform[1] = 0 (upright text, for which    *)
(* sqrt(a^2 + b^2) is |a|), its width and its font name.  Line keys, the   *)
(* y of an item and previousY are in half units; x, widths and font sizes  *)
(* are in whole units.                                                     *)

MaxRuns == 4

\* The initial value of previousY and previousX
NO_PREVIOUS == -1

MIN_SPLIT == 12

CENTER_TOLERANCE == 15

MIN_INDENT == 10

MAX_INDENT == 80

Viewports == {[width |-> 200, height |-> 400]}

Run(str, x, y4) ==
    [str |-> str, x |-> x, y4 |-> y4, width |-> 8, scale |-> 10, fontName |-> "F1"]

\* The runs a page is drawn from: the lines y = 154, 140, 114, 100 (gaps 14,
\* 26, 14), a second run far right on the line 114, a run at y = 153.75 that
\* rounds onto the line 154 next to its first run, a blank run, and two lines
\* at y = -1 and y = -15 below the origin of the page.
Runs == {
    Run(<<"a">>, 10, 616),
    Run(<<"b">>, 10, 560),
    Run(<<"c">>, 10, 456),
    Run(<<"d">>, 10, 400),
    Run(<<"e">>, 100, 456),
    Run(<<"f">>, 20, 615),
    Run(<<" ">>, 30, 560),
    Run(<<"g">>, 10, -4),
    Run(<<"h">>, 10, -60)
}

\* Further pages: two paragraphs of two lines each, the first line at x = 30
\* and the second at x = 10 (lines 154, 140, 114, 100); and the lines 154,
\* 140 with runs at x = 10 and x = 100, and 114 with a run at x = 40; a run
\* in the middle of the page (x = 90, width 8) followed 2 units on by a run
\* 60 wide; a single run at x = 135, right of 65% of the page width.
RunExamples == {
    <<Run(<<"a">>, 30, 616), Run(<<"b">>, 10, 560),
      Run(<<"c">>, 30, 456), Run(<<"d">>, 10, 400)>>,
    <<Run(<<"a">>, 10, 616), Run(<<"b">>, 10, 560),
      Run(<<"e">>, 100, 560), Run(<<"i">>, 40, 456)>>,
    <<Run(<<"a">>, 90, 616), [Run(<<"f">>, 100, 616) EXCEPT !.width = 60]>>,
    <<Run(<<"a">>, 135, 616)>>
}

RunLists == SeqsUpTo(Runs, MaxRuns) \cup RunExamples

\* !item.str || item.str.trim().length === 0
IsBlankNever(run) == FALSE

IsBlank(run) == Len(run.str) = 0 \/ Len(trim(run.str)) = 0

\* Math.round(item.transform[5] * 2), the line key in half units
LineKey(run) == (run.y4 + 1) \div 2

\* Math.sqrt(item.transform[0] ** 2 + item.transform[1] ** 2) with transform[1] = 0
FontSize(run) == Abs(run.scale)

\* (item.fontName || '').toLowerCase().includes('bold'), for the names used
IsBoldName(name) == name \in {"F1-Bold", "F2-bold"}

\* The map built by textContent.items.forEach
BuildLineMap(rs) ==
    [y \in {LineKey(rs[k]) : k \in {n \in 1..Len(rs) : ~IsBlank(rs[n])}} |->
        SelectSeq(rs, LAMBDA r : ~IsBlank(r) /\ LineKey(r) = y)]

\* Array.from(lineMap.keys()).sort((a, b) => b - a)
RECURSIVE SortDescending(_)
SortDescending(S) ==
    IF S = {} THEN <<>>
    ELSE LET top == CHOOSE y \in S : \A z \in S : y >= z
         IN  <<top>> \o SortDescending(S \ {top})

\* lineItems.sort((a, b) => a.transform[4] - b.transform[4]): stable, by x
RECURSIVE SortByX(_)
SortByX(seq) ==
    IF Len(seq) <= 1 THEN seq
    ELSE LET rest == SortByX(SubSeq(seq, 1, Len(seq) - 1))
             last == seq[Len(seq)]
             k    == Cardinality({j \in 1..Len(rest) : rest[j].x <= last.x})
         IN  SubSeq(rest, 1, k) \o <<last>> \o SubSeq(rest, k + 1, Len(rest))

\* The runs of line li, left to right, and the run in turn
LineItems == SortByX(lineMap[sortedY[li]])

\* x - (currentGroup.x + currentGroup.width)
GapToGroup(run, group) == run.x - (group.x + group.width)

\* gap < Math.max(charWidth * 2.5, 12), charWidth = item.width / item.str.length
BelowSplitThreshold(run, gap) ==
    gap < MIN_SPLIT \/ 2 * Len(run.str) * gap < 5 * run.width

\* gap > charWidth * 0.3
NeedsSpace(run, gap) == 10 * Len(run.str) * gap > 3 * run.width

\* previousY === -1 || gap > paraGapThreshold, y being the line key
isNewParagraph(prevY, y, threshold) ==
    \/ prevY = 2 * NO_PREVIOUS
    \/ Abs(prevY - y) * threshold.den > 2 * threshold.num

\* the indent of a new item
IndentOf(newPara, prevX, x) ==
    IF newPara /\ prevX # NO_PREVIOUS /\ x - prevX > MIN_INDENT /\ x - prevX < MAX_INDENT
    THEN x - prevX ELSE 0

\* centerDev < 15 ? 'center' : x > width * 0.65 ? 'right' : (unset)
AlignmentOf(x, width, vp) ==
    IF Abs(2 * x + width - vp.width) < 2 * CENTER_TOLERANCE THEN "center"
    ELSE IF 100 * x > 65 * vp.width THEN "right"
    ELSE "unset"

NewGroup(run, y, newPara, prevX, vp) ==
    [type |-> "text", text |-> run.str, x |-> run.x,
     y |-> 2 * vp.height - y - 2 * FontSize(run),
     width |-> run.width, height |-> FontSize(run), fontSize |-> FontSize(run),
     fontName |-> run.fontName, isBold |-> IsBoldName(run.fontName),
     isParagraphStart |-> newPara, indent |-> IndentOf(newPara, prevX, run.x),
     alignment |-> AlignmentOf(run.x, run.width, vp)]

InitGroup ==
    /\ pc = "extractPdfStructure"
    /\ runs \in RunLists
    /\ viewport \in Viewports
    /\ lineMap = <<>> /\ sortedY = <<>> /\ lineStats = NoStats
    /\ previousY = 0 /\ previousX = 0
    /\ pageItems = <<>> /\ currentGroup = 0 /\ li = 0 /\ ri = 0
    /\ items = <<>> /\ IdleOrder /\ IdleMerge /\ IdleStats /\ IdleLater

\* textContent.items.forEach(...); sortedY; calculateLineSpacingStats(sortedY);
\* let previousY = -1; let previousX = -1;
BucketLines ==
    /\ pc = "extractPdfStructure"
    /\ lineMap' = BuildLineMap(runs)
    /\ sortedY' = SortDescending(DOMAIN lineMap')
    /\ lineStats' = calculateLineSpacingStats(sortedY')
    /\ previousY' = 2 * NO_PREVIOUS
    /\ previousX' = NO_PREVIOUS
    /\ li' = 1 /\ ri' = 1 /\ currentGroup' = 0
    /\ pc' = "lines"
    /\ UNCHANGED <<laterVars, items, runs, viewport, pageItems, orderVars, mergeVars, statsVars>>

\* if (currentGroup && gap < splitThreshold) { the run joins the group }
AppendRun ==
    /\ pc = "lines" /\ li <= Len(sortedY) /\ ri <= Len(LineItems)
    /\ currentGroup # 0
    /\ LET item  == LineItems[ri]
           group == pageItems[currentGroup]
           gap   == GapToGroup(item, group)
       IN  /\ BelowSplitThreshold(item, gap)
           /\ pageItems' = [pageItems EXCEPT ![currentGroup] =
                 [group EXCEPT
                    !.text  = (IF NeedsSpace(item, gap) THEN @ \o <<" ">> ELSE @) \o item.str,
                    !.width = (item.x + item.width) - group.x]]
    /\ ri' = ri + 1
    /\ UNCHANGED <<laterVars, pc, items, runs, viewport, lineMap, sortedY, lineStats, previousY,
                   previousX, currentGroup, li, orderVars, mergeVars, statsVars>>

\* else { a new text item is created and pushed }
CreateItem ==
    /\ pc = "lines" /\ li <= Len(sortedY) /\ ri <= Len(LineItems)
    /\ LET item == LineItems[ri]
           y    == sortedY[li]
       IN  /\ IF currentGroup = 0 THEN TRUE
              ELSE ~BelowSplitThreshold(item, GapToGroup(item, pageItems[currentGroup]))
           /\ pageItems' = Append(pageItems,
                 NewGroup(item, y,
                          isNewParagraph(previousY, y, lineStats.paraGapThreshold),
                          previousX, viewport))
           /\ currentGroup' = Len(pageItems) + 1
           /\ previousY' = y
           /\ previousX' = item.x
    /\ ri' = ri + 1
    /\ UNCHANGED <<laterVars, pc, items, runs, viewport, lineMap, sortedY, lineStats, li,
                   orderVars, mergeVars, statsVars>>

\* the end of a line's callback: the next line starts with currentGroup = null
NextLine ==
    /\ pc = "lines" /\ li <= Len(sortedY) /\ ri > Len(LineItems)
    /\ li' = li + 1 /\ ri' = 1 /\ currentGroup' = 0
    /\ UNCHANGED <<laterVars, pc, items, runs, viewport, lineMap, sortedY, lineStats, previousY,
                   previousX, pageItems, orderVars, mergeVars, statsVars>>

\* the end of sortedY.forEach
LinesDone ==
    /\ pc = "lines" /\ li > Len(sortedY)
    /\ pc' = "grouped"
    /\ UNCHANGED <<laterVars, items, groupVars, orderVars, mergeVars, statsVars>>

NextGroup == BucketLines \/ AppendRun \/ CreateItem \/ NextLine \/ LinesDone

SpecGroup == InitGroup /\ [][NextGroup]_vars

----------------------------------------------------------------------------
(* Claims about the Line Grouper (SpecGroup)                               *)

\* The line (key, half units) a created item stands on
LineOf(item) == 2 * viewport.height - item.y - 2 * item.fontSize

\* gap > paraGapThreshold for a gap in half units
ExceedsThreshold(gap) ==
    gap * lineStats.paraGapThreshold.den > 2 * lineStats.paraGapThreshold.num

\* C10: a created text item has isParagraphStart = true if and only if it is
\* the first text item created on the page or the vertical distance between
\* its line and the line of the item created before it exceeds
\* paraGapThreshold.
C10_ParagraphStart ==
    \A k \in 1..Len(pageItems) :
        pageItems[k].isParagraphStart
           <=> IF k = 1 THEN TRUE
               ELSE ExceedsThreshold(Abs(LineOf(pageItems[k]) - LineOf(pageItems[k - 1])))

\* The example of C10: the lines 154, 140, 114, 100 (gaps 14, 26, 14) give the
\* threshold 21, and the first and third items start a paragraph.
C10_Example ==
    (pc = "grouped" /\ sortedY = <<308, 280, 228, 200>> /\ Len(pageItems) = 4) =>
        /\ lineStats.paraGapThreshold.num = 21 * lineStats.paraGapThreshold.den
        /\ <<pageItems[1].isParagraphStart, pageItems[2].isParagraphStart,
             pageItems[3].isParagraphStart, pageItems[4].isParagraphStart>>
              = <<TRUE, FALSE, TRUE, FALSE>>

C10_ExampleReached ==
    pc = "grouped" /\ sortedY = <<308, 280, 228, 200>> /\ Len(pageItems) = 4

\* The item created last before item k that starts a paragraph (0: none).
PreviousStart(k) ==
    LET starts == {j \in 1..(k - 1) : pageItems[j].isParagraphStart} IN
    IF starts = {} THEN 0 ELSE CHOOSE j \in starts : \A m \in starts : j >= m

\* d when 10 < d < 80 and 0 otherwise.
AcceptedIndent(d) == IF d > 10 /\ d < 80 THEN d ELSE 0

\* C22: an item that starts a paragraph has the indent d = x - (x of the most
\* recent earlier item that starts a paragraph) when 10 < d < 80 and 0
\* otherwise; an item that does not start a paragraph, and the first item of
\* the page, have indent 0.
C22_Indent ==
    \A k \in 1..Len(pageItems) :
        pageItems[k].indent =
            IF pageItems[k].isParagraphStart /\ PreviousStart(k) # 0
            THEN AcceptedIndent(pageItems[k].x - pageItems[PreviousStart(k)].x)
            ELSE 0

\* The indent measured from the item created before, whether or not that
\* item starts a paragraph.
IndentFromPreviousItem ==
    \A k \in 1..Len(pageItems) :
        pageItems[k].indent =
            IF pageItems[k].isParagraphStart /\ k > 1
            THEN AcceptedIndent(pageItems[k].x - pageItems[k - 1].x)
            ELSE 0

\* The alignment of a box x, width on a page of width pageWidth: 'center'
\* when its centre is less than 15 from the middle of the page, else 'right'
\* when x > 0.65 * pageWidth, else none.
AlignmentClaimed(x, width, pageWidth) ==
    IF Abs(2 * x + width - pageWidth) < 2 * 15 THEN "center"
    ELSE IF 100 * x > 65 * pageWidth THEN "right"
    ELSE "unset"

\* C23: every text item of the Line Grouper, with the x and width it has
\* after all adjacent runs of its line were fused into it, has alignment
\* 'center' exactly when |x + width/2 - pageWidth/2| < 15, else 'right'
\* exactly when x > 0.65 * pageWidth, else no alignment.
C23_Alignment ==
    pc = "grouped" =>
        \A k \in 1..Len(pageItems) :
            pageItems[k].alignment =
                AlignmentClaimed(pageItems[k].x, pageItems[k].width, viewport.width)

----------------------------------------------------------------------------
(* The auto-fit step of renderStructureToElement                           *)
(* A size is in points, scaled: s(v) = v * scale.  The line-spacing        *)
(* multiplier is kept in tenths (12, 15, 18, 20 for 1.2 .. 2.0).  A value  *)
(* that a division by a zero width makes Infinity or NaN keeps that kind.  *)
(* The font size chosen is kept as its square, an exact fraction, because  *)
(* the code takes a square root: a * sqrt(r) is compared through a^2 * r.  *)
(* measureTextWidth is the canvas: any width for any call.                 *)

MaxFit == 2

\* 0.6 as FLOOR_NUM / FLOOR_DEN and 0.95 as WRAP_NUM / WRAP_DEN
FLOOR_NUM == 3

FLOOR_DEN == 5

WRAP_NUM == 19

WRAP_DEN == 20

TOLERANCE_TENTHS == 11

LineSpacings == {12, 15, 18, 20}

Scales == {1, 2}

MeasuredWidths == {0, 19, 300}

FitText(text, width, height, fontSize) ==
    [type |-> "text", text |-> text, width |-> width, height |-> height,
     fontSize |-> fontSize]

\* The items of the page rendered: text items in boxes of width 0, 19 and
\* 100 and height 0 and 10 at the nominal sizes 0, 5 and 10, and an image.
FitBoxes ==
    {FitText(<<"a", "b">>, w, h, f) : w \in {0, 19, 100}, h \in {0, 10}, f \in {0, 5, 10}}
        \cup {[type |-> "image", width |-> 30, height |-> 10]}

Finite(n) == [kind |-> "finite", n |-> n]

Infinite == [kind |-> "infinite", n |-> 0]

NaN == [kind |-> "nan", n |-> 0]

\* -(-a \div b): the least integer >= a / b, for b > 0
Ceiling(a, b) == -((-a) \div b)

\* Math.ceil(fullTextWidth / (containerW * 0.95))
EstimatedLinesInverted(fullTextWidth, containerW) ==
    IF fullTextWidth = 0 THEN (IF containerW = 0 THEN NaN ELSE Infinite)
    ELSE Finite(Ceiling(WRAP_NUM * containerW, WRAP_DEN * fullTextWidth))

EstimatedLines(fullTextWidth, containerW) ==
    IF containerW = 0 THEN (IF fullTextWidth = 0 THEN NaN ELSE Infinite)
    ELSE Finite(Ceiling(WRAP_DEN * fullTextWidth, WRAP_NUM * containerW))

\* estimatedLines * (scaledFontSize * userLineSpacing), in tenths
RequiredHeight(lines, scaledFontSize, spacing) ==
    IF lines.kind = "nan" THEN NaN
    ELSE IF lines.kind = "infinite"
         THEN (IF scaledFontSize * spacing = 0 THEN NaN ELSE Infinite)
    ELSE Finite(lines.n * scaledFontSize * spacing)

\* requiredHeight > containerH * 1.1
Overflows(required, containerH) ==
    \/ required.kind = "infinite"
    \/ required.kind = "finite" /\ required.n > TOLERANCE_TENTHS * containerH

\* containerH / requiredHeight, a fraction (0 for an infinite height)
HeightRatio(required, containerH) ==
    IF required.kind = "infinite" THEN [num |-> 0, den |-> 1]
    ELSE [num |-> 10 * containerH, den |-> required.n]

\* the square of base * 0.6
FloorSq(base) ==
    [num |-> FLOOR_NUM * FLOOR_NUM * base * base, den |-> FLOOR_DEN * FLOOR_DEN]

\* Math.max(a, b) of two squares of non-negative sizes
MaxSq(a, b) == IF a.num * b.den >= b.num * a.den THEN a ELSE b

\* the square of Math.max(scaledFontSize * Math.sqrt(heightRatio), scaledFontSize * 0.6)
HeightScaledUnfloored(base, ratio) ==
    [num |-> base * base * ratio.num, den |-> ratio.den]

HeightScaled(base, ratio) ==
    MaxSq([num |-> base * base * ratio.num, den |-> ratio.den], FloorSq(base))

\* the square of Math.max(scaledFontSize * widthRatio, scaledFontSize * 0.6)
WidthScaled(base, containerW, fullTextWidth) ==
    MaxSq([num |-> base * base * containerW * containerW,
           den |-> fullTextWidth * fullTextWidth], FloorSq(base))

\* The square of scaledFontSize after step 5
FittedSq(base, lines, required, containerW, containerH, fullTextWidth) ==
    IF Overflows(required, containerH)
    THEN HeightScaled(base, HeightRatio(required, containerH))
    ELSE IF lines = Finite(1) /\ fullTextWidth > containerW
         THEN WidthScaled(base, containerW, fullTextWidth)
    ELSE [num |-> base * base, den |-> 1]

\* The span of a text item whose text measured fullTextWidth
FitSpan(item, fullTextWidth) ==
    LET base       == item.fontSize * scale
        containerW == item.width * scale
        containerH == item.height * scale
        lines      == EstimatedLines(fullTextWidth, containerW)
        required   == RequiredHeight(lines, base, userLineSpacing)
    IN  [type |-> "text", innerText |-> item.text, nominal |-> base,
         containerW |-> containerW, containerH |-> containerH,
         fullTextWidth |-> fullTextWidth, estimatedLines |-> lines,
         requiredHeight |-> required,
         fontSizeSq |-> FittedSq(base, lines, required, containerW, containerH,
                                 fullTextWidth)]

InitFit ==
    /\ pc = "renderStructureToElement"
    /\ fitItems \in SeqsUpTo(FitBoxes, MaxFit)
    /\ userLineSpacing \in LineSpacings
    /\ scale \in Scales
    /\ fitIdx = 1
    /\ spans = <<>>
    /\ IdleCore /\ IdleDoc /\ IdleXlat /\ IdleExport /\ IdleExtra

\* page.items.forEach: a text item, auto-fitted
RenderText ==
    /\ pc = "renderStructureToElement" /\ fitIdx <= Len(fitItems)
    /\ fitItems[fitIdx].type = "text"
    /\ \E fullTextWidth \in MeasuredWidths :
          spans' = Append(spans, FitSpan(fitItems[fitIdx], fullTextWidth))
    /\ fitIdx' = fitIdx + 1
    /\ UNCHANGED <<pc, fitItems, userLineSpacing, scale, coreVars, docVars, xlatVars, exportVars, extraVars>>

\* page.items.forEach: an image, a table or a path
RenderOther ==
    /\ pc = "renderStructureToElement" /\ fitIdx <= Len(fitItems)
    /\ fitItems[fitIdx].type # "text"
    /\ spans' = Append(spans, [type |-> fitItems[fitIdx].type])
    /\ fitIdx' = fitIdx + 1
    /\ UNCHANGED <<pc, fitItems, userLineSpacing, scale, coreVars, docVars, xlatVars, exportVars, extraVars>>

\* the end of page.items.forEach
RenderDone ==
    /\ pc = "renderStructureToElement" /\ fitIdx > Len(fitItems)
    /\ pc' = "rendered"
    /\ UNCHANGED <<fitVars, coreVars, docVars, xlatVars, exportVars, extraVars>>

NextFit == RenderText \/ RenderOther \/ RenderDone

SpecFit == InitFit /\ [][NextFit]_vars

----------------------------------------------------------------------------
(* Claims about the auto-fit step (SpecFit)                                *)

TextSpans == {k \in 1..Len(spans) : spans[k].type = "text"}

\* a <= b for two fractions with positive denominators
FractionLeq(a, b) == a.num * b.den <= b.num * a.den

\* The size at which the estimated height would equal the box lies below
\* the floor: heightRatio < 0.36
BelowFloor(span) ==
    /\ Overflows(span.requiredHeight, span.containerH)
    /\ LET r == HeightRatio(span.requiredHeight, span.containerH)
       IN  FLOOR_DEN * FLOOR_DEN * r.num < FLOOR_NUM * FLOOR_NUM * r.den

\* C11: the font size chosen by the auto-fit step is never larger than the
\* nominal (scaled) size and never smaller than 60% of it, and an item whose
\* fitting size lies below the floor is rendered at the floor with its
\* whole text; every item gets its element, in order.
C11_FontSizeBounds ==
    /\ Len(spans) = fitIdx - 1
    /\ pc = "rendered" => Len(spans) = Len(fitItems)
    /\ \A k \in TextSpans :
          /\ fitItems[k].type = "text"
          /\ FractionLeq(spans[k].fontSizeSq,
                         [num |-> spans[k].nominal * spans[k].nominal, den |-> 1])
          /\ FractionLeq(FloorSq(spans[k].nominal), spans[k].fontSizeSq)
          /\ spans[k].innerText = fitItems[k].text
          /\ BelowFloor(spans[k]) =>
                /\ FractionLeq(spans[k].fontSizeSq, FloorSq(spans[k].nominal))
                /\ spans[k].innerText = fitItems[k].text

\* C11 witness: a text of nominal size 10 whose 17 estimated lines need far
\* more than the box is rendered at size 6 with its text, and another item
\* was shrunk to a size strictly between the floor and the nominal size.
C11_Witness ==
    /\ pc = "rendered"
    /\ \E k \in TextSpans :
          /\ BelowFloor(spans[k]) /\ spans[k].nominal = 10 * scale
          /\ spans[k].fontSizeSq.num = 36 * scale * scale * spans[k].fontSizeSq.den
          /\ spans[k].innerText = <<"a", "b">>
    /\ \E k \in TextSpans :
          /\ spans[k].nominal > 0
          /\ ~FractionLeq(spans[k].fontSizeSq, FloorSq(spans[k].nominal))
          /\ ~FractionLeq([num |-> spans[k].nominal * spans[k].nominal, den |-> 1],
                          spans[k].fontSizeSq)

\* a > b for two heights; a comparison with NaN is false
HeightGreater(a, b) ==
    /\ a.kind # "nan" /\ b.kind # "nan"
    /\ \/ a.kind = "infinite" /\ b.kind = "finite"
       \/ a.kind = "finite" /\ b.kind = "finite" /\ a.n > b.n

\* C12: for a fixed box, text and line spacing and a measured width that
\* does not decrease with the font size, the lower nominal size never has
\* the greater estimated required height.
C12_Monotone ==
    \A j, k \in TextSpans :
        (/\ spans[j].containerW = spans[k].containerW
         /\ spans[j].containerH = spans[k].containerH
         /\ spans[j].innerText = spans[k].innerText
         /\ spans[j].nominal <= spans[k].nominal
         /\ spans[j].fullTextWidth <= spans[k].fullTextWidth)
        => ~HeightGreater(spans[j].requiredHeight, spans[k].requiredHeight)

\* C12 witness: the same text in the same box at the sizes 5 and 10, measured
\* 19 and 300 wide, needs strictly less height at the size 5.
C12_Witness ==
    \E j, k \in TextSpans :
        /\ spans[j].containerW = spans[k].containerW /\ spans[j].containerW > 0
        /\ spans[j].containerH = spans[k].containerH
        /\ spans[j].nominal = 5 * scale /\ spans[k].nominal = 10 * scale
        /\ spans[j].fullTextWidth = 19 /\ spans[k].fullTextWidth = 300
        /\ HeightGreater(spans[k].requiredHeight, spans[j].requiredHeight)

\* The widths tried for a box and for a measured text.
WidthRange == 0..120

\* The single-line width-constrained case: a positive box width, one
\* estimated line and a measured width greater than the box width.
SingleLineTooWide(fullTextWidth, containerW) ==
    /\ containerW > 0
    /\ EstimatedLines(fullTextWidth, containerW) = Finite(1)
    /\ fullTextWidth > containerW

\* C21: the single-line width-constrained shrink is reachable and effective:
\* there are a positive box width and a measured width greater than it with
\* an estimated line count of 1, and a text rendered in that case has its
\* size scaled by boxWidth / measuredWidth, floored at 60% of the nominal.
C21_WidthShrink ==
    /\ \E containerW \in WidthRange, fullTextWidth \in WidthRange :
          SingleLineTooWide(fullTextWidth, containerW)
    /\ \A k \in TextSpans :
          (/\ SingleLineTooWide(spans[k].fullTextWidth, spans[k].containerW)
           /\ ~Overflows(spans[k].requiredHeight, spans[k].containerH))
          => spans[k].fontSizeSq =
                WidthScaled(spans[k].nominal, spans[k].containerW,
                            spans[k].fullTextWidth)

\* No text is rendered in the single-line width-constrained case, and a text
\* measured wider than its positive box has two or more estimated lines.
WidthBranchDead ==
    /\ \A containerW \in WidthRange, fullTextWidth \in WidthRange :
          ~SingleLineTooWide(fullTextWidth, containerW)
    /\ \A k \in TextSpans :
          /\ ~SingleLineTooWide(spans[k].fullTextWidth, spans[k].containerW)
          /\ spans[k].containerW > 0 /\ spans[k].fullTextWidth > spans[k].containerW
             => spans[k].estimatedLines.n >= 2

----------------------------------------------------------------------------
(* extractPdfStructure over the pages of a document                        *)
(* A page of pdf.js is its text runs, its viewport and its operator list.  *)
(* The page loop runs the Line Grouper, collects the images, and hands the *)
(* items to reorderItemsByReadingFlow and mergeTextBlocks; the actions of  *)
(* those three are the ones above.  The function is called twice, first on *)
(* a document of one page and then on any document, so that what a page    *)
(* gives alone and what it gives among other pages are both on record.     *)
(* The baselines of these pages are whole numbers: the y of a text item,   *)
(* which the Line Grouper keeps in half units, is written in whole units   *)
(* when the items leave it.                                                *)

MaxPages == 2

IDENTITY == <<1, 0, 0, 1, 0, 0>>

Op(fn, args) == [fn |-> fn, args |-> args]

DocPage(rs, ops) == [runs |-> rs, viewport |-> [width |-> 200, height |-> 400], ops |-> ops]

\* The pages a document is made of: "-" above "b"; a blank run, two runs far
\* apart on a line and an image; two runs that join on a line and a line far
\* below; a page of blank and empty runs only.
DocPages == {
    DocPage(<<Run(<<"-">>, 10, 616), Run(<<"b">>, 10, 560)>>, <<>>),
    DocPage(<<Run(<<" ">>, 30, 560), Run(<<"c">>, 10, 456), Run(<<"e">>, 100, 456)>>,
            <<Op("transform", <<8, 0, 0, -10, 10, 300>>), Op("paintImageXObject", <<>>),
              Op("save", <<>>)>>),
    DocPage(<<Run(<<"a">>, 10, 616), Run(<<"f">>, 21, 616), Run(<<"d">>, 10, 400)>>,
            <<Op("paintInlineImageXObject", <<>>)>>),
    DocPage(<<Run(<<" ", " ">>, 30, 560), Run(<<>>, 10, 560)>>, <<>>)
}

Documents == SeqsUpTo(DocPages, MaxPages)

\* A page of four lines of size 10 with the baselines 154, 132, 118 and 104:
\* the gaps are 22, 14 and 14, so that stdLineHeight is 14 and
\* paraGapThreshold 21, and the second line starts a paragraph
ParagraphPage ==
    DocPage(<<Run(<<"a">>, 10, 616), Run(<<"b">>, 10, 528), Run(<<"c">>, 10, 472),
              Run(<<"d">>, 10, 416)>>, <<>>)

\* The two calls made on that page
DocExamples == {<< <<ParagraphPage>>, <<ParagraphPage>> >>}

\* The image items of an operator list, currentTransform being the
\* transform in force
RECURSIVE PaintedImages(_, _, _, _)
PaintedImages(ops, k, currentTransform, vp) ==
    IF k > Len(ops) THEN <<>>
    ELSE LET t == IF ops[k].fn = "transform" THEN ops[k].args ELSE currentTransform
         IN  (IF ops[k].fn \in {"paintImageXObject", "paintInlineImageXObject"}
              THEN <<[type |-> "image", data |-> "placeholder", x |-> t[5],
                      y |-> vp.height - t[6] - Abs(t[4]),
                      width |-> Abs(t[1]), height |-> Abs(t[4])]>>
              ELSE <<>>) \o PaintedImages(ops, k + 1, t, vp)

\* A text item of the Line Grouper with its y in whole units
WholeUnits(item) == [item EXCEPT !.y = @ \div 2]

\* const pageItems = [] of the page loop
KeptItems == pageItems

FreshItems == <<>>

\* The page in turn
ThePage == docs[call][pageNum]

InitDoc ==
    /\ pc = "pageLoop"
    /\ docs \in {<<<<p>>, d>> : p \in DocPages, d \in Documents} \cup DocExamples
    /\ call = 1 /\ pageNum = 1 /\ pages = <<>> /\ returned = <<>>
    /\ IdleCore /\ IdleFit /\ IdleXlat /\ IdleExport /\ IdleExtra

\* const page = await pdf.getPage(i); viewport; textContent; operatorList;
\* const pageItems = []; const lineMap = new Map();
GetPage ==
    /\ pc = "pageLoop" /\ pageNum <= Len(docs[call])
    /\ runs' = ThePage.runs
    /\ viewport' = ThePage.viewport
    /\ pageItems' = FreshItems
    /\ lineMap' = <<>>
    /\ pc' = "extractPdfStructure"
    /\ UNCHANGED <<items, orderVars, mergeVars, statsVars, sortedY, lineStats,
                   previousY, previousX, currentGroup, li, ri, fitVars, docVars, xlatVars, exportVars, extraVars>>

\* the loop over operatorList.fnArray
PaintImages ==
    /\ pc = "grouped"
    /\ pageItems' = [k \in 1..Len(pageItems) |-> WholeUnits(pageItems[k])]
                       \o PaintedImages(ThePage.ops, 1, IDENTITY, viewport)
    /\ pc' = "painted"
    /\ UNCHANGED <<items, orderVars, mergeVars, statsVars, runs, viewport, lineMap,
                   sortedY, lineStats, previousY, previousX, currentGroup, li, ri,
                   fitVars, docVars, xlatVars, exportVars, extraVars>>

\* const sortedPageItems = reorderItemsByReadingFlow(pageItems);
CallReorder ==
    /\ pc = "painted"
    /\ items' = pageItems
    /\ work' = <<pageItems>> /\ out' = <<>> /\ calls' = <<>>
    /\ pc' = "recursiveOrder"
    /\ UNCHANGED <<mergeVars, statsVars, groupVars, fitVars, docVars, xlatVars, exportVars, extraVars>>

\* const mergedPageItems = mergeTextBlocks(sortedPageItems);
CallMerge ==
    /\ pc = "ordered"
    /\ items' = out
    /\ i' = 0 /\ current' = NoItem /\ merged' = <<>> /\ steps' = <<>>
    /\ pc' = "mergeTextBlocks"
    /\ UNCHANGED <<orderVars, statsVars, groupVars, fitVars, docVars, xlatVars, exportVars, extraVars>>

\* pages.push({ items: mergedPageItems, width, height });
PushPage ==
    /\ pc = "merged"
    /\ pages' = Append(pages, [items |-> merged, width |-> viewport.width,
                               height |-> viewport.height])
    /\ pageNum' = pageNum + 1
    /\ pc' = "pageLoop"
    /\ UNCHANGED <<coreVars, fitVars, xlatVars, exportVars, docs, call, returned, extraVars>>

\* return { pages }; the second call starts with a `pages` of its own
ReturnPages ==
    /\ pc = "pageLoop" /\ pageNum > Len(docs[call])
    /\ returned' = Append(returned, pages)
    /\ IF call < Len(docs)
       THEN call' = call + 1 /\ pageNum' = 1 /\ pages' = <<>> /\ pc' = "pageLoop"
       ELSE pc' = "extracted" /\ UNCHANGED <<call, pageNum, pages, extraVars>>
    /\ UNCHANGED <<coreVars, fitVars, xlatVars, exportVars, docs, extraVars>>

NextDoc ==
    \/ GetPage \/ NextGroup \/ PaintImages \/ CallReorder \/ NextOrder
    \/ CallMerge \/ NextMerge \/ PushPage \/ ReturnPages

SpecDoc == InitDoc /\ [][NextDoc]_vars

\* The items the Line Grouper marked as the start of a paragraph because of
\* the gap above them: every start but the first item created on the page
StartedByGap(item) ==
    \E k \in 2..Len(pageItems) :
       /\ pageItems[k] = item
       /\ pageItems[k].type = "text" /\ pageItems[k].isParagraphStart

\* C30: a text item that the Line Grouper marked isParagraphStart because its
\* line gap exceeded paraGapThreshold is never fused by mergeTextBlocks into
\* the text item before it.
C30_ParagraphsSurvive ==
    pc \in {"mergeTextBlocks", "merged"} =>
       \A s \in 1..Len(steps) : steps[s].kind = "fuse" => ~StartedByGap(steps[s].next)

\* The page of four lines has been merged: the second line, a paragraph start
\* 22 below the first, is fused into it
ParagraphStartFused ==
    /\ pc = "merged" /\ Len(pageItems) = 4
    /\ \E s \in 1..Len(steps) :
          /\ steps[s].kind = "fuse" /\ StartedByGap(steps[s].next)
          /\ steps[s].next.y - steps[s].cur.y = 22
          /\ lineStats.paraGapThreshold.num = 21 * lineStats.paraGapThreshold.den

----------------------------------------------------------------------------
(* Claims about the pages of a document (SpecDoc)                          *)

\* Every page pushed so far, by both calls: (call, page number, output)
PagesOut ==
    UNION {{[call |-> c, n |-> n, page |-> returned[c][n]] : n \in 1..Len(returned[c])} :
              c \in 1..Len(returned)}
    \cup {[call |-> call, n |-> n, page |-> pages[n]] :
             n \in IF pc = "extracted" THEN {} ELSE 1..Len(pages)}

TextsOf(list) == {list[k].text : k \in {n \in 1..Len(list) : list[n].type = "text"}}

\* C13: every text item of every page has a text that is not empty: in the
\* Line Grouper, in the merge as it runs, and on the pages pushed.
C13_TextNotEmpty ==
    /\ pc \in {"lines", "grouped", "painted"} => \A t \in TextsOf(pageItems) : Len(t) > 0
    /\ \A t \in TextsOf(merged) : Len(t) > 0
    /\ current # NoItem /\ current.type = "text" => Len(current.text) > 0
    /\ \A p \in PagesOut : \A t \in TextsOf(p.page.items) : Len(t) > 0

\* C13 witness: the page whose first line is "-" has been pushed with the
\* single item "b" (the hyphen removed by the merge), and the page of blank
\* and empty runs with no item at all.
C13_Witness ==
    /\ pc = "extracted"
    /\ \E p \in PagesOut :
          /\ docs[p.call][p.n].runs[1].str = <<"-">>
          /\ Len(p.page.items) = 1 /\ p.page.items[1].text = <<"b">>
    /\ \E p \in PagesOut :
          /\ docs[p.call][p.n].runs[1].str = <<" ", " ">>
          /\ p.page.items = <<>>

\* C14: what a page gives depends on the page only: the same page gives the
\* same items, width and height alone in a document, after other pages and
\* before them, in either call.
C14_PagesIndependent ==
    \A p, q \in PagesOut :
        docs[p.call][p.n] = docs[q.call][q.n] => p.page = q.page

\* C14 witness: a page with text was processed alone by the first call and as
\* the second page, after a different page with text, by the second call.
C14_Witness ==
    /\ pc = "extracted"
    /\ Len(docs[2]) = 2
    /\ docs[2][2] = docs[1][1] /\ docs[2][1] # docs[1][1]
    /\ returned[1][1].items # <<>> /\ returned[2][1].items # <<>>
    /\ returned[2][2] = returned[1][1]

----------------------------------------------------------------------------
(* translatePdfStructure (src/types.ts)                                    *)
(* Items are objects: a page holds the addresses of its items and the heap *)
(* holds the objects, so that a copy and an alias differ.  The answer of   *)
(* callGeminiWithRetry is any of: a fatal GeminiError, another error, or a *)
(* response whose text parses or not.  The source sends 40 texts at a      *)
(* time; here a batch has BATCH_SIZE texts so that a page of three texts   *)
(* takes two batches.                                                      *)

MaxXlatPages == 2

BATCH_SIZE == 2

XText(text, y) ==
    [type |-> "text", text |-> text, x |-> 50, y |-> y, width |-> 100, height |-> 12]

XTable(rows, y) ==
    [type |-> "table", rows |-> rows, x |-> 50, y |-> y, width |-> 495, height |-> 25]

XImage(y) == [type |-> "image", data |-> "placeholder", x |-> 0, y |-> y,
              width |-> 30, height |-> 30]

\* The pages of the structure translated, as lists of item objects: three
\* texts to translate with a blank text and an image among them; a table
\* and a text; a page without items.
XlatPages == {
    <<XText(<<"a">>, 0), XImage(20), XText(<<"b">>, 60), XText(<<" ">>, 80),
      XText(<<"c">>, 100)>>,
    <<XTable(<<"r">>, 0), XText(<<"e">>, 40)>>,
    <<>>
}

\* What a translated segment or table can come back as: a string, or a value
\* that is not a string (written as a token)
Translated == {<<"x">>, <<"NOT_A_STRING">>}

\* What JSON.parse(sanitizeJsonResponse(response.text || "[]")) can leave in
\* rows: an array with a row, a value that is not an array of rows, or the
\* empty array (the response had no text, or its text was "[]")
TableAnswers == Translated \cup {<<>>}

\* The objects of a list of pages laid out on the heap, and the pages as
\* addresses
RECURSIVE Flatten(_)
Flatten(pageLists) ==
    IF pageLists = <<>> THEN <<>> ELSE Head(pageLists) \o Flatten(Tail(pageLists))

RECURSIVE AddressPages(_, _)
AddressPages(pageLists, base) ==
    IF pageLists = <<>> THEN <<>>
    ELSE <<[items |-> [k \in 1..Len(Head(pageLists)) |-> base + k],
            width |-> 595, height |-> 842]>>
         \o AddressPages(Tail(pageLists), base + Len(Head(pageLists)))

\* Numbers that are not finite, and null, written as numbers no item has
NOT_FINITE == -999999

NULL == -999998

NumberFields == {"x", "y", "width", "height"}

\* JSON.parse(JSON.stringify(v)): a number that is not finite comes back as
\* null; finite numbers, strings and arrays of them come back equal
JsonNumber(v) == IF v = NOT_FINITE THEN NULL ELSE v

JsonObject(obj) ==
    [f \in DOMAIN obj |-> IF f \in NumberFields THEN JsonNumber(obj[f]) ELSE obj[f]]

\* const pageItems = JSON.parse(JSON.stringify(page.items)): the addresses of
\* pageItems and the heap with the copies on it
AliasedItems(h, addresses) == [items |-> addresses, heap |-> h]

DeepCopy(h, addresses) ==
    [items |-> [k \in 1..Len(addresses) |-> Len(h) + k],
     heap  |-> h \o [k \in 1..Len(addresses) |-> JsonObject(h[addresses[k]])]]

\* item.type === 'text' && item.text.trim().length > 0
IsTranslatable(obj) == obj.type = "text" /\ Len(trim(obj.text)) > 0

\* textIndices: the positions (from 1) of the texts of pageItems to send
RECURSIVE TextIndices(_, _, _)
TextIndices(h, addresses, k) ==
    IF k > Len(addresses) THEN <<>>
    ELSE (IF IsTranslatable(h[addresses[k]]) THEN <<k>> ELSE <<>>)
         \o TextIndices(h, addresses, k + 1)

\* textContents.slice(i, i + BATCH_SIZE).length
BatchLength == Min(BATCH_SIZE, Len(textIndices) - bi)

\* translatedBatch.forEach((text, bIdx) => ...): the heap after the texts of
\* the answer are written, bIdx counted from 0
RECURSIVE WriteBatch(_, _, _, _)
WriteBatch(h, translatedBatch, bIdx, limit) ==
    IF bIdx >= Len(translatedBatch) THEN h
    ELSE LET at == bi + bIdx + 1
             h2 == IF bIdx < limit /\ at <= Len(textIndices)
                   THEN [h EXCEPT ![tItems[textIndices[at]]].text = translatedBatch[bIdx + 1]]
                   ELSE h
         IN  WriteBatch(h2, translatedBatch, bIdx + 1, limit)

\* A value passed to onProgress, as the fraction num / den, with the call
\* that passed it: updateProgress after a batch, or the end of a page
Report(num, den, by) == [num |-> num, den |-> den, by |-> by, page |-> pIdx]

\* updateProgress(step, totalSteps), pIdx counted from 1:
\* (pIdx / totalPages + step / max(1, totalSteps) / totalPages) * 100 is
\* 100 * (pIdx * n + step) / (totalPages * n) with n = max(1, totalSteps);
\* Math.min(99, ...) compares the cross-multiplied integers
updateProgress(step, totalSteps) ==
    LET totalPages == Len(structure.pages)
        n == Max(1, totalSteps)
        num == 100 * ((pIdx - 1) * n + step)
        den == totalPages * n
    IN  IF num > 99 * den THEN Report(99, 1, "updateProgress")
        ELSE Report(num, den, "updateProgress")

\* onProgress(((pIdx + 1) / totalPages) * 100), pIdx counted from 1
PageProgress == Report(100 * pIdx, Len(structure.pages), "page")

InitXlat ==
    /\ pc = "translatePdfStructure"
    /\ \E pageLists \in SeqsUpTo(XlatPages, MaxXlatPages) :
          /\ heap = Flatten(pageLists)
          /\ structure = [pages |-> AddressPages(pageLists, 0)]
    /\ inputHeap = heap
    /\ newPages = <<>> /\ pIdx = 1
    /\ tItems = <<>> /\ textIndices = <<>> /\ bi = 0 /\ ti = 0
    /\ result = <<>> /\ outcomes = {}
    /\ progress = <<>>
    /\ IdleCore /\ IdleFit /\ IdleDoc /\ IdleExport /\ IdleDocx /\ IdleRetry /\ IdleLoad

\* const page = structure.pages[pIdx]; const pageItems = JSON.parse(...);
\* textIndices and textContents are collected
CopyPage ==
    /\ pc = "translatePdfStructure" /\ pIdx <= Len(structure.pages)
    /\ LET copy == DeepCopy(heap, structure.pages[pIdx].items)
       IN  /\ heap' = copy.heap
           /\ tItems' = copy.items
           /\ textIndices' = TextIndices(copy.heap, copy.items, 1)
    /\ bi' = 0
    /\ pc' = "batches"
    /\ UNCHANGED <<inputHeap, structure, newPages, pIdx, ti, result, outcomes,
                   coreVars, fitVars, docVars, exportVars, extraVars>>

\* the answer is an array of batch.length elements: every text is replaced
BatchTranslated ==
    /\ pc = "batches" /\ bi < Len(textIndices)
    /\ \E translatedBatch \in [1..BatchLength -> Translated] :
          heap' = WriteBatch(heap, translatedBatch, 0, Len(translatedBatch))
    /\ bi' = bi + BATCH_SIZE
    /\ outcomes' = outcomes \cup {"translated"}
    /\ progress' = Append(progress, updateProgress(bi + BATCH_SIZE, Len(textIndices)))
    /\ UNCHANGED <<pc, inputHeap, structure, newPages, pIdx, tItems, textIndices, ti,
                   result, coreVars, fitVars, docVars, exportVars, otherVars>>

\* the answer is an array of another length: what is there is used
BatchMismatched ==
    /\ pc = "batches" /\ bi < Len(textIndices)
    /\ \E translatedBatch \in SeqsUpTo(Translated, BatchLength + 1) :
          /\ Len(translatedBatch) # BatchLength
          /\ heap' = WriteBatch(heap, translatedBatch, 0, BatchLength)
    /\ bi' = bi + BATCH_SIZE
    /\ outcomes' = outcomes \cup {"mismatched"}
    /\ progress' = Append(progress, updateProgress(bi + BATCH_SIZE, Len(textIndices)))
    /\ UNCHANGED <<pc, inputHeap, structure, newPages, pIdx, tItems, textIndices, ti,
                   result, coreVars, fitVars, docVars, exportVars, otherVars>>

\* an empty response, a text that does not parse, a value that is not an
\* array, or an error that is not fatal: the batch keeps its texts
BatchSkipped ==
    /\ pc = "batches" /\ bi < Len(textIndices)
    /\ bi' = bi + BATCH_SIZE
    /\ outcomes' = outcomes \cup {"skipped"}
    /\ progress' = Append(progress, updateProgress(bi + BATCH_SIZE, Len(textIndices)))
    /\ UNCHANGED <<pc, heap, inputHeap, structure, newPages, pIdx, tItems, textIndices,
                   ti, result, coreVars, fitVars, docVars, exportVars, otherVars>>

\* if (err instanceof GeminiError && err.code === "FATAL") throw err;
BatchFatal ==
    /\ pc = "batches" /\ bi < Len(textIndices)
    /\ pc' = "thrown"
    /\ UNCHANGED <<heap, inputHeap, structure, newPages, pIdx, tItems, textIndices, bi,
                   ti, result, outcomes, coreVars, fitVars, docVars, exportVars, extraVars>>

\* the end of the batch loop
BatchesDone ==
    /\ pc = "batches" /\ bi >= Len(textIndices)
    /\ ti' = 1
    /\ pc' = "tables"
    /\ UNCHANGED <<heap, inputHeap, structure, newPages, pIdx, tItems, textIndices, bi,
                   result, outcomes, coreVars, fitVars, docVars, exportVars, extraVars>>

\* the table loop, an item that is not a table
TableNone ==
    /\ pc = "tables" /\ ti <= Len(tItems)
    /\ heap[tItems[ti]].type # "table"
    /\ ti' = ti + 1
    /\ UNCHANGED <<pc, heap, inputHeap, structure, newPages, pIdx, tItems, textIndices,
                   bi, result, outcomes, coreVars, fitVars, docVars, exportVars, extraVars>>

\* pageItems[i].rows = JSON.parse(cleaned)
TableTranslated ==
    /\ pc = "tables" /\ ti <= Len(tItems)
    /\ heap[tItems[ti]].type = "table"
    /\ \E rows \in TableAnswers : heap' = [heap EXCEPT ![tItems[ti]].rows = rows]
    /\ ti' = ti + 1
    /\ outcomes' = outcomes \cup {"table"}
    /\ UNCHANGED <<pc, inputHeap, structure, newPages, pIdx, tItems, textIndices, bi,
                   result, coreVars, fitVars, docVars, exportVars, extraVars>>

\* an error that is not fatal: the table keeps its rows
TableSkipped ==
    /\ pc = "tables" /\ ti <= Len(tItems)
    /\ heap[tItems[ti]].type = "table"
    /\ ti' = ti + 1
    /\ UNCHANGED <<pc, heap, inputHeap, structure, newPages, pIdx, tItems, textIndices,
                   bi, result, outcomes, coreVars, fitVars, docVars, exportVars, extraVars>>

\* if (err instanceof GeminiError && err.code === "FATAL") throw err;
TableFatal ==
    /\ pc = "tables" /\ ti <= Len(tItems)
    /\ heap[tItems[ti]].type = "table"
    /\ pc' = "thrown"
    /\ UNCHANGED <<heap, inputHeap, structure, newPages, pIdx, tItems, textIndices, bi,
                   ti, result, outcomes, coreVars, fitVars, docVars, exportVars, extraVars>>

\* newPages.push({ ...page, items: pageItems });
PushTranslated ==
    /\ pc = "tables" /\ ti > Len(tItems)
    /\ newPages' = Append(newPages, [structure.pages[pIdx] EXCEPT !.items = tItems])
    /\ pIdx' = pIdx + 1
    /\ pc' = "translatePdfStructure"
    /\ progress' = Append(progress, PageProgress)
    /\ UNCHANGED <<heap, inputHeap, structure, tItems, textIndices, bi, ti, result,
                   outcomes, coreVars, fitVars, docVars, exportVars, otherVars>>

\* return { pages: newPages };
ReturnTranslated ==
    /\ pc = "translatePdfStructure" /\ pIdx > Len(structure.pages)
    /\ result' = [pages |-> newPages]
    /\ pc' = "translated"
    /\ UNCHANGED <<heap, inputHeap, structure, newPages, pIdx, tItems, textIndices, bi,
                   ti, outcomes, coreVars, fitVars, docVars, exportVars, extraVars>>

NextXlat ==
    \/ CopyPage \/ BatchTranslated \/ BatchMismatched \/ BatchSkipped \/ BatchFatal
    \/ BatchesDone \/ TableNone \/ TableTranslated \/ TableSkipped \/ TableFatal
    \/ PushTranslated \/ ReturnTranslated

SpecXlat == InitXlat /\ [][NextXlat]_vars

----------------------------------------------------------------------------
(* Claims about translatePdfStructure (SpecXlat)                           *)

SameGeometry(a, b) ==
    /\ a.type = b.type
    /\ a.x = b.x /\ a.y = b.y /\ a.width = b.width /\ a.height = b.height

\* A page of the output against the page of the input it was made from
SamePageShape(new, old) ==
    /\ new.width = old.width /\ new.height = old.height
    /\ Len(new.items) = Len(old.items)
    /\ \A k \in 1..Len(old.items) :
          SameGeometry(heap[new.items[k]], inputHeap[old.items[k]])

\* C15: whatever the translation calls answer short of a fatal error, the
\* structure returned has the pages of the input, each with its items in
\* the same order with their type and geometry and with the page's width
\* and height; the item objects of the input are never written.
C15_OnlyText ==
    /\ \A a \in 1..Len(inputHeap) : heap[a] = inputHeap[a]
    /\ \A p \in 1..Len(newPages) : SamePageShape(newPages[p], structure.pages[p])
    /\ pc = "translated" =>
          /\ Len(result.pages) = Len(structure.pages)
          /\ \A p \in 1..Len(result.pages) :
                SamePageShape(result.pages[p], structure.pages[p])

\* C15 witness: a structure of two pages was returned after a full batch, a
\* batch of another length, a skipped batch and a table answer, and a text
\* of the output differs from the text of the input.
C15_Witness ==
    /\ pc = "translated" /\ Len(result.pages) = 2
    /\ {"translated", "mismatched", "skipped", "table"} \subseteq outcomes
    /\ \E p \in 1..2 : \E k \in 1..Len(result.pages[p].items) :
          /\ heap[result.pages[p].items[k]].type = "text"
          /\ heap[result.pages[p].items[k]].text
                # inputHeap[structure.pages[p].items[k]].text

\* The table items of the pages translated so far and of the result.
TranslatedTables ==
    {heap[a] : a \in {b \in UNION {Range(newPages[p].items) : p \in 1..Len(newPages)} :
                         heap[b].type = "table"}}

\* C25: every table item of a structure returned by translatePdfStructure
\* from a structure whose tables have rows, as those of extractDocxStructure
\* do, has at least one row, whatever the translation service answers.
C25_TablesHaveRows ==
    /\ \A a \in 1..Len(inputHeap) :
          inputHeap[a].type = "table" => Len(inputHeap[a].rows) >= 1
    /\ \A table \in TranslatedTables : Len(table.rows) >= 1

\* a / b <= c / d for positive denominators
ReportLeq(a, b) == a.num * b.den <= b.num * a.den

IsHundred(a) == a.num = 100 * a.den

\* C28: the values passed to onProgress during one call never decrease, and
\* the value 100 is passed only by the completion of the last page.
C28_ProgressMonotone ==
    /\ \A k \in 1..(Len(progress) - 1) : ReportLeq(progress[k], progress[k + 1])
    /\ \A k \in 1..Len(progress) :
          IsHundred(progress[k]) =>
             progress[k].by = "page" /\ progress[k].page = Len(structure.pages)

\* What holds of the code: the reports of one page never decrease while its
\* batches run, none exceeds 100, and 100 is passed only by the completion of
\* the last page
ProgressWithinPage ==
    /\ \A k \in 1..(Len(progress) - 1) :
          progress[k].page = progress[k + 1].page /\ progress[k + 1].by = "updateProgress"
             => ReportLeq(progress[k], progress[k + 1])
    /\ \A k \in 1..Len(progress) :
          /\ progress[k].num <= 100 * progress[k].den
          /\ IsHundred(progress[k]) =>
                progress[k].by = "page" /\ progress[k].page = Len(structure.pages)

\* The end of a page reports less than its last batch did
ProgressFallsBack ==
    \E k \in 1..(Len(progress) - 1) :
       /\ progress[k].by = "updateProgress" /\ progress[k + 1].by = "page"
       /\ ~ReportLeq(progress[k], progress[k + 1])

----------------------------------------------------------------------------
(* generatePdfFromStructure and the font loading it relies on              *)
(* A fetch ends in one of three ways: an OK response, a response that is   *)
(* not OK, or a network error (the promise rejects).  loadFontSet is one   *)
(* step: the CSS fetch, the fetch of each font file the CSS names, and the *)
(* style element appended when the CSS was obtained.                       *)

MaxExportPages == 2

NoFont == "null"

HELVETICA == "helvetica"

\* The ids of the style elements: the base set, and one per language
BASE_FONTS == <<"polyglot-base-fonts", "">>

FetchOutcomes == {"ok", "notOk", "networkError"}

\* The font files the CSS of a font set names
FontFiles == {"regular.woff2", "bold.woff2"}

\* The languages exported to: two of LANGUAGE_FONT_MAP, English (not in the
\* map, although fetchFontForJsPDF names it) and a language nobody lists
Languages == {"Hindi", "Urdu", "English", "Klingon"}

\* LANGUAGE_FONT_MAP[targetLanguage]
HasConfig(language) == language \in {"Hindi", "Urdu"}

PrimaryFont(language) ==
    IF language = "Hindi" THEN "Noto Sans Devanagari" ELSE "Noto Sans Arabic"

\* FONT_URL_MAP[config.primaryFont]: every primary font of the map has a URL
HasTtfUrl(fontName) == fontName \in {"Noto Sans Devanagari", "Noto Sans Arabic", "Inter"}

\* `polyglot-fonts-${targetLanguage}`
LanguageFonts(language) == <<"polyglot-fonts", language>>

\* loadFontSet(id, ...): the style ids of document.head afterwards
StylesAfterLoad(styles, id, css) ==
    IF id \in styles THEN styles
    ELSE IF css = "ok" THEN styles \cup {id}
    ELSE styles

\* loadFontSet(id, ...): the failures it ran into, all of them caught
FailuresOfLoad(styles, id, css, files) ==
    IF id \in styles THEN {}
    ELSE IF css = "ok"
         THEN {<<"fontFile", files[f]>> : f \in {g \in FontFiles : files[g] # "ok"}}
    ELSE {<<"css", css>>}

\* let activeFontName = 'helvetica'; if (embedFontData) { ... }
ActiveFontPrimary(data, language) ==
    IF HasConfig(language) THEN PrimaryFont(language) ELSE HELVETICA

ActiveFont(data, language) == IF data # NoFont THEN data ELSE HELVETICA

InitExport ==
    /\ pc = "embedFontsForExport"
    /\ targetLanguage \in Languages
    /\ nPages \in 0..MaxExportPages
    /\ headStyles \in SUBSET {BASE_FONTS, LanguageFonts("Hindi")}
    /\ embedFontData = NoFont /\ activeFontName = "" /\ pdfFont = ""
    /\ rendered = FALSE /\ textLayer = <<>> /\ failures = {}
    /\ IdleCore /\ IdleFit /\ IdleDoc /\ IdleXlat /\ IdleExtra

\* await loadFontSet('polyglot-base-fonts', [...])
LoadBaseFonts ==
    /\ pc = "embedFontsForExport"
    /\ \E css \in FetchOutcomes, files \in [FontFiles -> FetchOutcomes] :
          /\ headStyles' = StylesAfterLoad(headStyles, BASE_FONTS, css)
          /\ failures' = failures \cup FailuresOfLoad(headStyles, BASE_FONTS, css, files)
    /\ pc' = "languageFonts"
    /\ UNCHANGED <<targetLanguage, nPages, embedFontData, activeFontName, pdfFont,
                   rendered, textLayer, coreVars, fitVars, docVars, xlatVars, extraVars>>

\* if (config) { await loadFontSet(`polyglot-fonts-${targetLanguage}`, ...); warm-up }
LoadLanguageFonts ==
    /\ pc = "languageFonts" /\ HasConfig(targetLanguage)
    /\ \E css \in FetchOutcomes, files \in [FontFiles -> FetchOutcomes] :
          /\ headStyles' = StylesAfterLoad(headStyles, LanguageFonts(targetLanguage), css)
          /\ failures' = failures \cup
                FailuresOfLoad(headStyles, LanguageFonts(targetLanguage), css, files)
    /\ pc' = "ensureFontsLoaded"
    /\ UNCHANGED <<targetLanguage, nPages, embedFontData, activeFontName, pdfFont,
                   rendered, textLayer, coreVars, fitVars, docVars, xlatVars, extraVars>>

\* else { await document.fonts.ready; ... }
NoLanguageFonts ==
    /\ pc = "languageFonts" /\ ~HasConfig(targetLanguage)
    /\ pc' = "ensureFontsLoaded"
    /\ UNCHANGED <<targetLanguage, nPages, headStyles, embedFontData, activeFontName,
                   pdfFont, rendered, textLayer, failures, coreVars, fitVars, docVars,
                   xlatVars, extraVars>>

\* await ensureFontsLoaded();
EnsureFontsLoaded ==
    /\ pc = "ensureFontsLoaded"
    /\ pc' = "fetchFontForJsPDF"
    /\ UNCHANGED <<targetLanguage, nPages, headStyles, embedFontData, activeFontName,
                   pdfFont, rendered, textLayer, failures, coreVars, fitVars, docVars,
                   xlatVars, extraVars>>

\* catch (fontError) { console.warn(...) }: whatever the embedding throws
FontEmbeddingThrows ==
    /\ pc \in {"languageFonts", "ensureFontsLoaded"}
    /\ failures' = failures \cup {<<"embedding", "thrown">>}
    /\ pc' = "fetchFontForJsPDF"
    /\ UNCHANGED <<targetLanguage, nPages, headStyles, embedFontData, activeFontName,
                   pdfFont, rendered, textLayer, coreVars, fitVars, docVars, xlatVars, extraVars>>

\* fetchFontForJsPDF: if (!config) return null;
FetchFontNoConfig ==
    /\ pc = "fetchFontForJsPDF" /\ ~HasConfig(targetLanguage)
    /\ embedFontData' = NoFont
    /\ pc' = "render"
    /\ UNCHANGED <<targetLanguage, nPages, headStyles, activeFontName, pdfFont,
                   rendered, textLayer, failures, coreVars, fitVars, docVars, xlatVars, extraVars>>

\* fetchFontForJsPDF: the fetch rejects or the response is not OK: return null
FetchFontFailed ==
    /\ pc = "fetchFontForJsPDF" /\ HasConfig(targetLanguage)
    /\ HasTtfUrl(PrimaryFont(targetLanguage))
    /\ \E outcome \in FetchOutcomes \ {"ok"} :
          failures' = failures \cup {<<"ttf", outcome>>}
    /\ embedFontData' = NoFont
    /\ pc' = "render"
    /\ UNCHANGED <<targetLanguage, nPages, headStyles, activeFontName, pdfFont,
                   rendered, textLayer, coreVars, fitVars, docVars, xlatVars, extraVars>>

\* fetchFontForJsPDF: the response is OK; the FileReader gives the data
\* (resolve({ fontName, fontFile })) or no string (resolve(null))
FetchFontLoaded ==
    /\ pc = "fetchFontForJsPDF" /\ HasConfig(targetLanguage)
    /\ HasTtfUrl(PrimaryFont(targetLanguage))
    /\ \E readerGivesString \in BOOLEAN :
          embedFontData' = IF readerGivesString THEN PrimaryFont(targetLanguage)
                           ELSE NoFont
    /\ pc' = "render"
    /\ UNCHANGED <<targetLanguage, nPages, headStyles, activeFontName, pdfFont,
                   rendered, textLayer, failures, coreVars, fitVars, docVars, xlatVars, extraVars>>

\* await renderStructureToElement(wrap, ...); els.length > 0
RenderForExport ==
    /\ pc = "render" /\ nPages > 0
    /\ rendered' = TRUE
    /\ pc' = "fontSetup"
    /\ UNCHANGED <<targetLanguage, nPages, headStyles, embedFontData, activeFontName,
                   pdfFont, textLayer, failures, coreVars, fitVars, docVars, xlatVars, extraVars>>

\* if (els.length === 0) throw new Error("No pages generated");
RenderNoPages ==
    /\ pc = "render" /\ nPages = 0
    /\ rendered' = TRUE
    /\ pc' = "exportFailed"
    /\ UNCHANGED <<targetLanguage, nPages, headStyles, embedFontData, activeFontName,
                   pdfFont, textLayer, failures, coreVars, fitVars, docVars, xlatVars, extraVars>>

\* new jsPDF(...); the font setup of the invisible text layer
FontSetup ==
    /\ pc = "fontSetup"
    /\ activeFontName' = ActiveFont(embedFontData, targetLanguage)
    /\ pdfFont' = ActiveFont(embedFontData, targetLanguage)
    /\ pc' = "pdfPages"
    /\ UNCHANGED <<targetLanguage, nPages, headStyles, embedFontData, rendered,
                   textLayer, failures, coreVars, fitVars, docVars, xlatVars, extraVars>>

\* the loop over els: the page image, then the text layer in the font set
ExportPage ==
    /\ pc = "pdfPages" /\ Len(textLayer) < nPages
    /\ pdfFont' = IF activeFontName # HELVETICA THEN activeFontName ELSE pdfFont
    /\ textLayer' = Append(textLayer, pdfFont')
    /\ UNCHANGED <<pc, targetLanguage, nPages, headStyles, embedFontData,
                   activeFontName, rendered, failures, coreVars, fitVars, docVars,
                   xlatVars, extraVars>>

\* return pdf.save(filename) or pdf.output('blob')
SavePdf ==
    /\ pc = "pdfPages" /\ Len(textLayer) = nPages
    /\ pc' = "exported"
    /\ UNCHANGED <<exportVars, coreVars, fitVars, docVars, xlatVars, extraVars>>

NextExport ==
    \/ LoadBaseFonts \/ LoadLanguageFonts \/ NoLanguageFonts \/ EnsureFontsLoaded
    \/ FontEmbeddingThrows \/ FetchFontNoConfig \/ FetchFontFailed \/ FetchFontLoaded
    \/ RenderForExport \/ RenderNoPages \/ FontSetup \/ ExportPage \/ SavePdf

SpecExport == InitExport /\ [][NextExport]_vars

----------------------------------------------------------------------------
(* Claims about the export (SpecExport)                                    *)

\* No TTF was obtained for the text layer
NoTtf == embedFontData = NoFont

\* C16: no failed font fetch ends the export: it is abandoned only for a
\* structure without pages; after any failure of the CSS, of a font file or
\* of the TTF the export goes on to render and to write the PDF, it cannot
\* stop before it is exported, and when no TTF was obtained the text layer
\* of every page is written in 'helvetica'.
C16_FontFailureTolerated ==
    /\ pc = "exportFailed" => nPages = 0
    /\ pc \in {"fontSetup", "pdfPages", "exported"} => rendered /\ nPages > 0
    /\ (pc \in {"pdfPages", "exported"} /\ NoTtf) =>
          /\ activeFontName = HELVETICA /\ pdfFont = HELVETICA
          /\ \A k \in 1..Len(textLayer) : textLayer[k] = HELVETICA
    /\ pc = "exported" => Len(textLayer) = nPages
    /\ pc \notin {"exported", "exportFailed"} => ENABLED NextExport

\* C16 witness: an export to Hindi of two pages was written although the
\* CSS of a font set, a font file and the TTF all failed to load, in
\* 'helvetica'.
C16_Witness ==
    /\ pc = "exported" /\ targetLanguage = "Hindi" /\ nPages = 2
    /\ <<"css", "networkError">> \in failures
    /\ <<"fontFile", "notOk">> \in failures
    /\ <<"ttf", "notOk">> \in failures
    /\ textLayer = <<HELVETICA, HELVETICA>>

----------------------------------------------------------------------------
(* extractDocxStructure                                                    *)
(* The body of the converted document is a list of nodes: a P with its     *)
(* text, a TABLE with its rows (a row is its number of cells), or another  *)
(* element with its child nodes.  Lengths are in hundredths of a unit, so  *)
(* that the page height 841.89 is the integer 84189.                       *)

MaxNodes == 3

PAGE_WIDTH == 59528

PAGE_HEIGHT == 84189

DOCX_MARGIN == 5000

DOCX_FONT_SIZE == 1200

\* fontSize * 1.5
LINE_HEIGHT == 1800

ROW_HEIGHT == 2500

TABLE_GAP == 2000

P(text) == [nodeName |-> "P", text |-> text]

TABLE(trs) == [nodeName |-> "TABLE", trs |-> trs]

DIV(childNodes) == [nodeName |-> "DIV", childNodes |-> childNodes]

\* n rows of one cell
RowsOf(n) == [k \in 1..n |-> 1]

\* The nodes of a body: paragraphs with and without text; tables without
\* rows, with a row without cells, with 1, 29, 30 and 32 rows; an element
\* holding a paragraph and a table.
DocxNodes == {
    P(<<"a">>), P(<<" ">>),
    TABLE(<<>>), TABLE(<<0>>), TABLE(<<1, 0>>),
    TABLE(RowsOf(29)), TABLE(RowsOf(30)), TABLE(RowsOf(32)),
    DIV(<<P(<<"b">>), TABLE(<<2>>)>>)
}

\* rows: the rows that have a cell
KeptRows(trs) == SelectSeq(trs, LAMBDA cells : cells > 0)

\* currentY + size > pageHeight - margin
PastBottom(y, size) == y + size > PAGE_HEIGHT - DOCX_MARGIN

DocxText(text, y) ==
    [type |-> "text", text |-> text, x |-> DOCX_MARGIN, y |-> y,
     width |-> PAGE_WIDTH - DOCX_MARGIN * 2, height |-> DOCX_FONT_SIZE,
     fontSize |-> DOCX_FONT_SIZE, fontName |-> "sans-serif", isBold |-> FALSE,
     isParagraphStart |-> TRUE]

DocxTable(rows, y) ==
    [type |-> "table", rows |-> rows, x |-> DOCX_MARGIN, y |-> y,
     width |-> PAGE_WIDTH - DOCX_MARGIN * 2, height |-> Len(rows) * ROW_HEIGHT,
     hasBorders |-> TRUE]

DocxPage(pageItems_) ==
    [items |-> pageItems_, width |-> PAGE_WIDTH, height |-> PAGE_HEIGHT]

InitDocx ==
    /\ pc = "extractDocxStructure"
    /\ docxBody \in SeqsUpTo(DocxNodes, MaxNodes)
    /\ docxWork = <<>> /\ docxPages = <<>>
    /\ currentPageItems = <<>> /\ currentY = 0
    /\ IdleCore /\ IdleFit /\ IdleDoc /\ IdleXlat /\ IdleExport
    /\ IdleRetry /\ IdleLoad /\ progress = <<>>

\* mammoth.convertToHtml and the parser have run: currentY = margin;
\* doc.body.childNodes.forEach(processNode)
ParseDocx ==
    /\ pc = "extractDocxStructure"
    /\ docxWork' = docxBody
    /\ currentY' = DOCX_MARGIN
    /\ pc' = "processNode"
    /\ UNCHANGED <<docxBody, docxPages, currentPageItems,
                   exceptDocx>>

\* catch (error) { throw new Error("Could not parse DOCX content."); }
ParseDocxFails ==
    /\ pc = "extractDocxStructure"
    /\ pc' = "docxThrown"
    /\ UNCHANGED <<docxVars, exceptDocx>>

\* if (node.nodeName === 'P') with a text
ProcessParagraph ==
    /\ pc = "processNode" /\ docxWork # <<>>
    /\ Head(docxWork).nodeName = "P"
    /\ trim(Head(docxWork).text) # <<>>
    /\ LET text   == trim(Head(docxWork).text)
           newPg  == PastBottom(currentY, LINE_HEIGHT)
           y      == IF newPg THEN DOCX_MARGIN ELSE currentY
           before == IF newPg THEN <<>> ELSE currentPageItems
       IN  /\ docxPages' = IF newPg THEN Append(docxPages, DocxPage(currentPageItems))
                                    ELSE docxPages
           /\ currentPageItems' = Append(before, DocxText(text, y))
           /\ currentY' = y + LINE_HEIGHT
    /\ docxWork' = Tail(docxWork)
    /\ UNCHANGED <<pc, docxBody, exceptDocx>>

\* a P whose trimmed text is empty
SkipParagraph ==
    /\ pc = "processNode" /\ docxWork # <<>>
    /\ Head(docxWork).nodeName = "P"
    /\ trim(Head(docxWork).text) = <<>>
    /\ docxWork' = Tail(docxWork)
    /\ UNCHANGED <<pc, docxBody, docxPages, currentPageItems, currentY,
                   exceptDocx>>

\* else if (node.nodeName === 'TABLE') with rows.length > 0
ProcessTable ==
    /\ pc = "processNode" /\ docxWork # <<>>
    /\ Head(docxWork).nodeName = "TABLE"
    /\ KeptRows(Head(docxWork).trs) # <<>>
    /\ LET rows   == KeptRows(Head(docxWork).trs)
           h      == Len(rows) * ROW_HEIGHT
           newPg  == PastBottom(currentY, h)
           y      == IF newPg THEN DOCX_MARGIN ELSE currentY
           before == IF newPg THEN <<>> ELSE currentPageItems
       IN  /\ docxPages' = IF newPg THEN Append(docxPages, DocxPage(currentPageItems))
                                    ELSE docxPages
           /\ currentPageItems' = Append(before, DocxTable(rows, y))
           /\ currentY' = y + h + TABLE_GAP
    /\ docxWork' = Tail(docxWork)
    /\ UNCHANGED <<pc, docxBody, exceptDocx>>

\* a TABLE none of whose rows has a cell
SkipTable ==
    /\ pc = "processNode" /\ docxWork # <<>>
    /\ Head(docxWork).nodeName = "TABLE"
    /\ KeptRows(Head(docxWork).trs) = <<>>
    /\ docxWork' = Tail(docxWork)
    /\ UNCHANGED <<pc, docxBody, docxPages, currentPageItems, currentY,
                   exceptDocx>>

\* else { node.childNodes.forEach(processNode); }
ProcessChildren ==
    /\ pc = "processNode" /\ docxWork # <<>>
    /\ Head(docxWork).nodeName \notin {"P", "TABLE"}
    /\ docxWork' = Head(docxWork).childNodes \o Tail(docxWork)
    /\ UNCHANGED <<pc, docxBody, docxPages, currentPageItems, currentY,
                   exceptDocx>>

\* if (currentPageItems.length > 0 || pages.length === 0) pages.push(...);
\* return { pages };
ReturnDocx ==
    /\ pc = "processNode" /\ docxWork = <<>>
    /\ docxPages' = IF currentPageItems # <<>> \/ docxPages = <<>>
                    THEN Append(docxPages, DocxPage(currentPageItems))
                    ELSE docxPages
    /\ pc' = "docxReturned"
    /\ UNCHANGED <<docxBody, docxWork, currentPageItems, currentY,
                   exceptDocx>>

NextDocx ==
    \/ ParseDocx \/ ParseDocxFails \/ ProcessParagraph \/ SkipParagraph
    \/ ProcessTable \/ SkipTable \/ ProcessChildren \/ ReturnDocx

SpecDocx == InitDocx /\ [][NextDocx]_vars

----------------------------------------------------------------------------
(* Claims about extractDocxStructure (SpecDocx)                            *)

\* The items emitted so far: those of the pages pushed and of the page in
\* the making.
DocxItems ==
    UNION {Range(docxPages[p].items) : p \in 1..Len(docxPages)}
        \cup (IF pc = "docxReturned" THEN {} ELSE Range(currentPageItems))

\* C24: every item emitted by extractDocxStructure lies vertically inside
\* its page, y >= 50 and y + height <= 841.89, for every sequence of
\* paragraphs and tables of any number of rows.
C24_InsidePage ==
    \A it \in DocxItems :
        /\ it.y >= DOCX_MARGIN
        /\ it.y + it.height <= PAGE_HEIGHT

\* Every item but a table of more than 31 rows lies inside its page, and an
\* item that does not fit the rest of the page starts a new page.
InsidePageUpTo31Rows ==
    \A it \in DocxItems :
        /\ it.y >= DOCX_MARGIN
        /\ (it.type = "table" => Len(it.rows) <= 31) => it.y + it.height <= PAGE_HEIGHT

\* Every table item of extractDocxStructure has a row.
DocxTablesHaveRows ==
    \A it \in DocxItems : it.type = "table" => Len(it.rows) >= 1

----------------------------------------------------------------------------
(* callGeminiWithRetry (src/types.ts)                                      *)
(* An error is an object with the fields the handler reads: status,        *)
(* error.code, response.status (0 when absent), message and error.message  *)
(* (the empty text when absent).  A message is the sequence of its words;  *)
(* includes(...) is asked of a word.  The wrapped call settles every time  *)
(* it is made.  The function is called with the default maxRetries only    *)
(* (lines 884, 976 and 1045), so the loop never ends by its condition: it  *)
(* is left by return, throw or break.                                      *)

MAX_RETRIES == 5

UNKNOWN_LIMIT == 2

Err(status, errorCode, responseStatus, message, errorMessage) ==
    [status |-> status, errorCode |-> errorCode, responseStatus |-> responseStatus,
     message |-> message, errorMessage |-> errorMessage]

\* The errors the wrapped call can fail with
Errors == {
    Err(400, 0, 0, <<"bad", "request">>, <<>>),
    Err(0, 401, 0, <<>>, <<"api", "key">>),
    Err(0, 0, 403, <<"quota">>, <<>>),
    Err(0, 0, 0, <<"QUOTA", "exceeded", "request", "Blocked">>, <<>>),
    Err(503, 0, 0, <<"network", "SAFETY">>, <<>>),
    Err(429, 0, 0, <<>>, <<>>),
    Err(503, 403, 0, <<"unavailable">>, <<"blocked">>),
    Err(0, 0, 0, <<"fetch", "failed">>, <<>>),
    Err(404, 0, 0, <<"not", "found">>, <<>>),
    Err(0, 0, 0, <<"odd">>, <<"safety">>)
}

\* What the wrapped call can resolve to
Responses == {"response", "other response"}

\* String.prototype.toLowerCase, of the words used
LowerWord(w) ==
    CASE w = "QUOTA"   -> "quota"
      [] w = "Blocked" -> "blocked"
      [] w = "SAFETY"  -> "safety"
      [] OTHER         -> w

toLowerCase(message) == [k \in 1..Len(message) |-> LowerWord(message[k])]

\* err?.status || err?.error?.code || err?.response?.status
StatusOf(err) ==
    IF err.status # 0 THEN err.status
    ELSE IF err.errorCode # 0 THEN err.errorCode
    ELSE err.responseStatus

\* (err?.message || err?.error?.message || "").toLowerCase()
MsgOf(err) ==
    toLowerCase(IF err.message # <<>> THEN err.message ELSE err.errorMessage)

includes(msg, word) == \E k \in 1..Len(msg) : msg[k] = word

isFatal(err) ==
    \/ StatusOf(err) \in {401, 403, 400}
    \/ includes(MsgOf(err), "safety") \/ includes(MsgOf(err), "blocked")

isRateLimit(err) ==
    \/ StatusOf(err) = 429
    \/ includes(MsgOf(err), "quota") \/ includes(MsgOf(err), "rate limit")

isServerIssue(err) ==
    \/ StatusOf(err) >= 500
    \/ includes(MsgOf(err), "overloaded") \/ includes(MsgOf(err), "unavailable")

isNetwork(err) == includes(MsgOf(err), "network") \/ includes(MsgOf(err), "fetch")

isRetryable(err) == isRateLimit(err) \/ isServerIssue(err) \/ isNetwork(err)

\* The branch of the handler an error takes
ClassifyRetryableFirst(err) ==
    IF isRetryable(err) THEN "retryable"
    ELSE IF isFatal(err) THEN "fatal"
    ELSE "unknown"

Classify(err) ==
    IF isFatal(err) THEN "fatal"
    ELSE IF isRetryable(err) THEN "retryable"
    ELSE "unknown"

\* if (i >= 2) throw ..., i counted from 0
UnknownGivesUpLater(k) == k >= UNKNOWN_LIMIT + 1

UnknownGivesUp(k) == k >= UNKNOWN_LIMIT

\* Math.pow(2, i) * baseDelay, without the jitter Math.random() * 1000
RECURSIVE Pow2(_)
Pow2(k) == IF k = 0 THEN 1 ELSE 2 * Pow2(k - 1)

Backoff(err, k) == Pow2(k) * (IF isRateLimit(err) THEN 2000 ELSE 1000)

GeminiError(code, err) == [name |-> "GeminiError", code |-> code, originalError |-> err]

InitRetry ==
    /\ pc = "callGeminiWithRetry"
    /\ retryI = 0 /\ attempts = <<>> /\ delays = <<>>
    /\ retryThrown = NothingThrown /\ retryReturned = <<>>
    /\ IdleCore /\ IdleFit /\ IdleDoc /\ IdleXlat /\ IdleExport /\ IdleDocx
    /\ IdleLoad /\ progress = <<>>

\* return await fn();
AttemptReturns ==
    /\ pc = "callGeminiWithRetry" /\ retryI < MAX_RETRIES
    /\ \E value \in Responses :
          /\ attempts' = Append(attempts, [ok |-> TRUE, at |-> retryI, value |-> value])
          /\ retryReturned' = <<value>>
    /\ pc' = "retryReturned"
    /\ UNCHANGED <<retryI, delays, retryThrown,
                   exceptRetry>>

\* FATAL: throw new GeminiError(mapGeminiError(err), "FATAL", err);
AttemptFatal ==
    /\ pc = "callGeminiWithRetry" /\ retryI < MAX_RETRIES
    /\ \E err \in Errors :
          /\ Classify(err) = "fatal"
          /\ attempts' = Append(attempts, [ok |-> FALSE, at |-> retryI, err |-> err])
          /\ retryThrown' = GeminiError("FATAL", err)
    /\ pc' = "retryThrown"
    /\ UNCHANGED <<retryI, delays, retryReturned,
                   exceptRetry>>

\* RETRYABLE: await delay(waitTime); continue;
AttemptRetried ==
    /\ pc = "callGeminiWithRetry" /\ retryI < MAX_RETRIES
    /\ retryI # MAX_RETRIES - 1
    /\ \E err \in Errors :
          /\ Classify(err) = "retryable"
          /\ attempts' = Append(attempts, [ok |-> FALSE, at |-> retryI, err |-> err])
          /\ delays' = Append(delays, [after |-> retryI, ms |-> Backoff(err, retryI)])
    /\ retryI' = retryI + 1
    /\ UNCHANGED <<pc, retryThrown, retryReturned,
                   exceptRetry>>

\* RETRYABLE: if (i === maxRetries - 1) break; and the throw after the loop
AttemptLast ==
    /\ pc = "callGeminiWithRetry" /\ retryI < MAX_RETRIES
    /\ retryI = MAX_RETRIES - 1
    /\ \E err \in Errors :
          /\ Classify(err) = "retryable"
          /\ attempts' = Append(attempts, [ok |-> FALSE, at |-> retryI, err |-> err])
          /\ retryThrown' = GeminiError("RETRY_LIMIT_EXCEEDED", err)
    /\ pc' = "retryThrown"
    /\ UNCHANGED <<retryI, delays, retryReturned,
                   exceptRetry>>

\* UNKNOWN: await delay(1000);
AttemptUnknownRetried ==
    /\ pc = "callGeminiWithRetry" /\ retryI < MAX_RETRIES
    /\ ~UnknownGivesUp(retryI)
    /\ \E err \in Errors :
          /\ Classify(err) = "unknown"
          /\ attempts' = Append(attempts, [ok |-> FALSE, at |-> retryI, err |-> err])
          /\ delays' = Append(delays, [after |-> retryI, ms |-> 1000])
    /\ retryI' = retryI + 1
    /\ UNCHANGED <<pc, retryThrown, retryReturned,
                   exceptRetry>>

\* UNKNOWN: if (i >= 2) throw new GeminiError(mapGeminiError(err), "ERROR", err);
AttemptUnknownThrown ==
    /\ pc = "callGeminiWithRetry" /\ retryI < MAX_RETRIES
    /\ UnknownGivesUp(retryI)
    /\ \E err \in Errors :
          /\ Classify(err) = "unknown"
          /\ attempts' = Append(attempts, [ok |-> FALSE, at |-> retryI, err |-> err])
          /\ retryThrown' = GeminiError("ERROR", err)
    /\ pc' = "retryThrown"
    /\ UNCHANGED <<retryI, delays, retryReturned,
                   exceptRetry>>

NextRetry ==
    \/ AttemptReturns \/ AttemptFatal \/ AttemptRetried \/ AttemptLast
    \/ AttemptUnknownRetried \/ AttemptUnknownThrown

SpecRetry == InitRetry /\ [][NextRetry]_vars

\* The wrapped call settles and the timers of delay() fire.
SpecRetryFair == SpecRetry /\ WF_vars(NextRetry)

\* The attempts that failed, and the kinds of their errors as the claims
\* name them
Failed(k) == ~attempts[k].ok

HasFatalMark(err) ==
    \/ StatusOf(err) = 400 \/ StatusOf(err) = 401 \/ StatusOf(err) = 403
    \/ includes(MsgOf(err), "safety") \/ includes(MsgOf(err), "blocked")

HasRetryableMark(err) ==
    \/ StatusOf(err) = 429 \/ StatusOf(err) >= 500
    \/ \E word \in {"quota", "rate limit", "overloaded", "unavailable", "network", "fetch"} :
          includes(MsgOf(err), word)

\* C26: an attempt that fails with status 400, 401 or 403, or with a message
\* containing 'safety' or 'blocked', is the last call of the wrapped function
\* and a GeminiError with code 'FATAL' is thrown, also when the error matches
\* a retryable pattern as well.
C26_FatalNotRetried ==
    \A k \in 1..Len(attempts) :
       Failed(k) /\ HasFatalMark(attempts[k].err) =>
          /\ k = Len(attempts)
          /\ pc = "retryThrown"
          /\ retryThrown = GeminiError("FATAL", attempts[k].err)
          /\ \A d \in 1..Len(delays) : delays[d].after < attempts[k].at

\* A third attempt failed with an error that is fatal and matches a retryable
\* pattern too, and FATAL was thrown
C26_Witness ==
    /\ pc = "retryThrown" /\ retryThrown.code = "FATAL"
    /\ Len(attempts) = 3
    /\ HasFatalMark(attempts[3].err) /\ HasRetryableMark(attempts[3].err)

\* The failed attempts whose error is neither fatal nor retryable
UnknownAttempts ==
    {k \in 1..Len(attempts) :
        Failed(k) /\ ~HasFatalMark(attempts[k].err) /\ ~HasRetryableMark(attempts[k].err)}

RetryDone == pc \in {"retryReturned", "retryThrown"}

\* What holds of every state of a call
RetryBounded ==
    /\ Len(attempts) <= MAX_RETRIES
    /\ \A k \in 1..Len(attempts) : attempts[k].at = k - 1
    /\ \A k \in 1..(Len(attempts) - 1) : Failed(k)
    /\ pc = "callGeminiWithRetry" =>
          /\ retryI < MAX_RETRIES /\ retryI = Len(attempts)
          /\ retryReturned = <<>> /\ retryThrown = NothingThrown
    /\ pc = "retryReturned" =>
          /\ attempts # <<>> /\ attempts[Len(attempts)].ok
          /\ retryReturned = <<attempts[Len(attempts)].value>>
          /\ retryThrown = NothingThrown
    /\ pc = "retryThrown" =>
          /\ attempts # <<>> /\ Failed(Len(attempts))
          /\ retryReturned = <<>>
          /\ retryThrown.name = "GeminiError"
          /\ retryThrown.code \in {"FATAL", "ERROR", "RETRY_LIMIT_EXCEEDED"}
          /\ retryThrown.originalError = attempts[Len(attempts)].err
          /\ retryThrown.code = "RETRY_LIMIT_EXCEEDED" <=>
                /\ Len(attempts) = MAX_RETRIES
                /\ HasRetryableMark(attempts[Len(attempts)].err)
                /\ ~HasFatalMark(attempts[Len(attempts)].err)
    /\ Cardinality(UnknownAttempts) <= 3
    /\ \A k \in UnknownAttempts : k < Len(attempts) => k <= 2
    /\ \A d \in 1..Len(delays) :
          /\ delays[d].after + 1 <= Len(attempts)
          /\ RetryDone => delays[d].after + 1 < Len(attempts)

\* C27: a call of callGeminiWithRetry ends; it calls the wrapped function at
\* most maxRetries (5) times, returns the first result that succeeds or throws
\* a GeminiError; at most 3 attempts fail with an error of unknown kind;
\* retryable errors only are tried 5 times and end in RETRY_LIMIT_EXCEEDED;
\* and no delay is awaited after the last failed attempt.
C27_Terminates == []RetryBounded /\ <>RetryDone

\* Five attempts failed with retryable errors, four delays were awaited, and
\* RETRY_LIMIT_EXCEEDED was thrown
C27_Witness ==
    /\ pc = "retryThrown" /\ retryThrown.code = "RETRY_LIMIT_EXCEEDED"
    /\ Len(attempts) = MAX_RETRIES /\ Len(delays) = MAX_RETRIES - 1
    /\ \A k \in 1..Len(attempts) : HasRetryableMark(attempts[k].err)

\* Two attempts failed with an unknown error and were retried, the third threw
UnknownThrice ==
    /\ pc = "retryThrown" /\ retryThrown.code = "ERROR"
    /\ UnknownAttempts = {1, 2, 3}

----------------------------------------------------------------------------
(* Two exports at the same time (src/types.ts, handleDownload and          *)
(* handleShare; src/services/pdfService.ts, embedFontsForExport and        *)
(* loadFontSet)                                                            *)
(* The Share and Download buttons stay enabled while an export runs, so a  *)
(* second export can start before the first has ended.  Each export runs   *)
(* embedFontsForExport; a step is the code between two awaits, which the   *)
(* single thread of the page runs without interruption.                    *)

LoadCallers == {"handleDownload", "handleShare"}

NoId == <<"", "">>

\* document.getElementById(id)
getElementById(id) == \E k \in 1..Len(styleElements) : styleElements[k] = id

\* Where embedFontsForExport goes on when its call loadFontSet(id) returns
AfterLoad(id) == IF id = BASE_FONTS THEN "config" ELSE "fontsReady"

\* loadFontSet(id, ...) up to its first await: return if the style is there,
\* start the fetch of the CSS otherwise
EnterLoadFontSet(c, id) ==
    IF getElementById(id)
    THEN /\ loadPc' = [loadPc EXCEPT ![c] = AfterLoad(id)]
         /\ UNCHANGED loadId
    ELSE /\ loadPc' = [loadPc EXCEPT ![c] = "awaitCss"]
         /\ loadId' = [loadId EXCEPT ![c] = id]

InitLoad ==
    /\ pc = "exports"
    /\ loadPc = [c \in LoadCallers |-> "button"]
    /\ loadId = [c \in LoadCallers |-> NoId]
    /\ styleElements = <<>>
    /\ IdleCore /\ IdleFit /\ IdleDoc /\ IdleXlat /\ IdleExport /\ IdleDocx
    /\ IdleRetry /\ progress = <<>>

\* the button is pressed: generatePdfFromStructure, embedFontsForExport,
\* await loadFontSet('polyglot-base-fonts', ...)
StartExport(c) ==
    /\ pc = "exports" /\ loadPc[c] = "button"
    /\ EnterLoadFontSet(c, BASE_FONTS)
    /\ UNCHANGED <<pc, styleElements, exceptLoad>>

\* const config = LANGUAGE_FONT_MAP[targetLanguage]; if (config)
\* await loadFontSet(`polyglot-fonts-${targetLanguage}`, config.families)
LoadLanguageSet(c) ==
    /\ pc = "exports" /\ loadPc[c] = "config"
    /\ \E language \in Languages :
          /\ HasConfig(language)
          /\ EnterLoadFontSet(c, LanguageFonts(language))
    /\ UNCHANGED <<pc, styleElements, exceptLoad>>

\* the else branch: the language has no entry in LANGUAGE_FONT_MAP
NoLanguageSet(c) ==
    /\ pc = "exports" /\ loadPc[c] = "config"
    /\ \E language \in Languages : ~HasConfig(language)
    /\ loadPc' = [loadPc EXCEPT ![c] = "fontsReady"]
    /\ UNCHANGED <<pc, loadId, styleElements, exceptLoad>>

\* const cssRes = await fetch(fontCssUrl) with cssRes.ok; await cssRes.text()
CssFetched(c) ==
    /\ pc = "exports" /\ loadPc[c] = "awaitCss"
    /\ loadPc' = [loadPc EXCEPT ![c] = "awaitText"]
    /\ UNCHANGED <<pc, loadId, styleElements, exceptLoad>>

\* the fetch rejects or !cssRes.ok: caught, loadFontSet returns
CssFailed(c) ==
    /\ pc = "exports" /\ loadPc[c] = "awaitCss"
    /\ loadPc' = [loadPc EXCEPT ![c] = AfterLoad(loadId[c])]
    /\ loadId' = [loadId EXCEPT ![c] = NoId]
    /\ UNCHANGED <<pc, styleElements, exceptLoad>>

\* let cssText = await cssRes.text(); await Promise.all(uniqueUrls.map(...))
CssRead(c) ==
    /\ pc = "exports" /\ loadPc[c] = "awaitText"
    /\ loadPc' = [loadPc EXCEPT ![c] = "awaitFonts"]
    /\ UNCHANGED <<pc, loadId, styleElements, exceptLoad>>

\* Promise.all has settled (a font file that fails is caught inside):
\* style.id = id; document.head.appendChild(style)
AppendStyle(c) ==
    /\ pc = "exports" /\ loadPc[c] = "awaitFonts"
    /\ styleElements' = Append(styleElements, loadId[c])
    /\ loadPc' = [loadPc EXCEPT ![c] = AfterLoad(loadId[c])]
    /\ loadId' = [loadId EXCEPT ![c] = NoId]
    /\ UNCHANGED <<pc, exceptLoad>>

\* the rest of the export, which loads no font set
FinishExport(c) ==
    /\ pc = "exports" /\ loadPc[c] = "fontsReady"
    /\ loadPc' = [loadPc EXCEPT ![c] = "exported"]
    /\ UNCHANGED <<pc, loadId, styleElements, exceptLoad>>

NextLoad ==
    \E c \in LoadCallers :
       \/ StartExport(c) \/ LoadLanguageSet(c) \/ NoLanguageSet(c) \/ CssFetched(c)
       \/ CssFailed(c) \/ CssRead(c) \/ AppendStyle(c) \/ FinishExport(c)

SpecLoad == InitLoad /\ [][NextLoad]_vars

\* The number of style elements of document.head with an id
StylesWithId(id) == Cardinality({k \in 1..Len(styleElements) : styleElements[k] = id})

\* C29: for every id, at most one style element with that id is ever
\* appended to the document, also when two exports run loadFontSet with the
\* same id at the same time.
C29_OneStylePerId == \A k \in 1..Len(styleElements) : StylesWithId(styleElements[k]) <= 1

\* What holds of the code: a call appends at most one style element, so an id
\* is appended at most once per export, and every style appended was missing
\* when the call that appended it looked for it
OneStylePerExport ==
    \A k \in 1..Len(styleElements) :
       StylesWithId(styleElements[k]) <= Cardinality(LoadCallers)

\* Both exports have ended and the base font set is in the document twice
BaseFontsTwice ==
    /\ \A c \in LoadCallers : loadPc[c] = "exported"
    /\ StylesWithId(BASE_FONTS) = 2

====
